---- MODULE Spec2Model ----
(***************************************************************************)
(* State-machine model of the plato-server training backend:               *)
(*   experience_memory.py  ExperienceMemory (replay buffer)                *)
(*   server.py             EnvironmentServer (ingestor, learner,           *)
(*                         checkpoint store) and WeightServer (publisher)  *)
(* Two specifications are given.  SpecMemory drives the public methods of  *)
(* ExperienceMemory and EnvironmentServer.perform_update directly.  Spec   *)
(* runs the threads of the server: the owner thread (construction, start,  *)
(* shutdown), the UDP listener thread and the HTTP handler thread.         *)
(***************************************************************************)
EXTENDS Integers, Sequences, FiniteSets, TLC

\* ------------------------------------------------------------------ bounds
\* Largest replay capacity of the direct-call runs.
MaxMemCapacity == 2
\* Largest batch size explored (batch_size ranges over 1..MaxBatch).
MaxBatch == 2
\* Cap on the number of direct perform_update calls that update.
MaxDirectUpdates == 1
\* Cap on the number of training updates in one run.
MaxUpdates == 2
\* Cap on the number of transitions recorded in one run of the server.
MaxPackets == 2
\* save_frequency ranges over 0..MaxSaveFreq.
MaxSaveFreq == 1
\* Largest update count of a checkpoint left on disk by an earlier run.
MaxPrior == 0
\* Number of times the process is started again after a shutdown.
MaxRestarts == 1
\* Depth of the metrics queue (tensorboard_writer.py:25 has maxsize=1000).
MaxQueue == 2

\* -------------------------------------------------------- program constants
\* experience_memory.py:30/32 hard-codes a state of 8 floats.
AssumedStateDims == 8

\* experience_memory.py:30   self._reward_idx = 8 + 1
reward_idx == AssumedStateDims + 1

\* experience_memory.py:31-33   self._terminal_idx = self._reward_idx + 1 + 8
terminal_idx == reward_idx + 1 + AssumedStateDims

\* main.py:95 --actions, the number of outputs of the approximator.
action_dims == 6

\* Replay capacities of the server runs: a buffer the second transition
\* already finds full, and one that does not fill up.
CapacityChoices == {1, 4}

\* The configured state dimensions explored: below, at and above the
\* dimension experience_memory.py assumes.
StateDimChoices ==
    {AssumedStateDims - 1, AssumedStateDims, AssumedStateDims + 1}

VARIABLES
    capacity,        \* ExperienceMemory.capacity
    batch_size,      \* EnvironmentServer.batch_size
    state_dims,      \* EnvironmentServer.state_dims
    save_frequency,  \* EnvironmentServer.save_frequency
    memory,          \* ExperienceMemory.memory: sequence of transitions
    pos,             \* ExperienceMemory.pos (0-based write cursor)
    updates_counter, \* EnvironmentServer.updates_counter
    net,             \* version of the network parameters / optimizer state
    sample,          \* value returned by the last direct get_batch call
    last,            \* record of the last call: what was asked, what happened
    nRecorded,       \* number of transitions recorded so far (history)
    shutdown_event,  \* EnvironmentServer.shutdown_event
    files,           \* the artifact files and their temp files on disk
    disk0,           \* the files found at start-up (never changes)
    lock,            \* the shared mp.Lock: "free" or the thread holding it
    pc,              \* where each thread is
    saveSeq,         \* number of _save_network_internal calls begun (history)
    lastSaved,       \* count last renamed into the counter file (history)
    hdr,             \* do_GET's local updates_count
    response,        \* the last HTTP response sent
    weight_server,   \* the WeightServer object and its HTTPServer
    episodes,        \* EnvironmentServer.episodes: client id -> steps so far
    queue,           \* TensorBoardWriter.queue: the messages not yet consumed
    writer,          \* the TensorBoardWriter object and its consumer thread
    instance         \* which server process over these paths this is (history)

cfgVars == <<capacity, batch_size, state_dims, save_frequency, disk0, instance>>
bufVars == <<memory, pos>>
learnVars == <<updates_counter, net>>
callVars == <<sample, last>>
diskVars == <<files, saveSeq, lastSaved>>
httpVars == <<hdr, response, weight_server>>
vars == <<capacity, batch_size, state_dims, save_frequency, memory, pos,
          updates_counter, net, sample, last, nRecorded, shutdown_event,
          files, disk0, lock, pc, saveSeq, lastSaved, hdr, response, episodes,
          queue, instance, weight_server, writer>>

\* ------------------------------------------------------------ transitions
\* A decoded datagram: struct.unpack of ">" + D floats + action + reward +
\* D floats + terminal gives 2D+3 elements; torch.tensor(..., float32) turns
\* the terminal bool into 1.0 / 0.0.  Python index i is TLA+ index i+1.
\* Three elements vary here: the action byte (index D), the terminal flag
\* (index 2D+2) and the element at index 18, which ExperienceMemory reads.
Packet(D, act, probe, term) ==
    [i \in 1..(2 * D + 3) |->
        IF i = 2 * D + 3 THEN term
        ELSE IF i = terminal_idx + 1 THEN probe
        ELSE IF i = D + 1 THEN act
        ELSE 0]

\* The action is one unsigned byte of the datagram and is not validated on
\* receipt: an index of the approximator's output and the first value that
\* is not one.
ActionChoices == {0, action_dims}

Packets(D) ==
    {Packet(D, a, p, t) : a \in ActionChoices, p \in 0..1, t \in 0..1}

\* The transitions of the direct-call runs: the buffer never reads the action
\* element, so one action value stands for all.
MemoryPackets(D) == {Packet(D, 0, p, t) : p \in 0..1, t \in 0..1}

\* server.py:78: struct.calcsize(">i"), the bytes of the client id.
client_id_size == 4

\* server.py:69-77: struct.calcsize of ">" + D floats + "B" + "f" + D floats
\* + "?" (no padding with ">").
packet_size(D) == 4 * D + 1 + 4 + 4 * D + 1

\* The client ids datagrams carry.
ClientIds == {1, 2}

\* A datagram as recvfrom returns it: its length in bytes, and what the id
\* field and the payload decode to when they are long enough.
WellFormed(D, C) ==
    {[len |-> client_id_size + packet_size(D), client |-> c, packet |-> t] :
        c \in C, t \in Packets(D)}

\* Datagrams the listener drops: one shorter than the id field, and one
\* whose payload is D+1 bytes short of the packet size.
Malformed(D, C) ==
    {[len |-> client_id_size - 1, client |-> 0, packet |-> <<>>]}
        \cup {[len |-> client_id_size + packet_size(D) - (D + 1),
                client |-> c, packet |-> <<>>] : c \in C}

Datagrams(D, C) == WellFormed(D, C) \cup Malformed(D, C)

\* server.py:341 and :350: the two length tests of the receive loop.
too_small(d) == d.len < client_id_size

wrong_size(D, d) == d.len - client_id_size # packet_size(D)

\* server.py:511 and :519: actions = sample[:, state_dims].long() indexes the
\* action_dims outputs in q_values_current.gather(1, actions); gather raises
\* RuntimeError for an index outside 0..action_dims-1.
action_in_range(D, t) == t[D + 1] \in 0..(action_dims - 1)

batch_in_range(mem, D, slots) ==
    \A k \in 1..Len(slots) : action_in_range(D, mem[slots[k]])

\* server.py:407-415: the ingestor's terminal flag, packet[2*state_dims + 2].
packet_terminal(D, t) == t[(D + 1 + 1 + D) + 1] > 0

\* experience_memory.py:69 and :76: memory[pos][_terminal_idx] > 0
terminal_test(t) == t[terminal_idx + 1] > 0

\* server.py:404-466: the sender's episode grows by one step; a terminal
\* transition has the episode logged and deleted.
episode_step(eps, c, D, t) ==
    IF packet_terminal(D, t)
    THEN [eps EXCEPT ![c] = 0]
    ELSE [eps EXCEPT ![c] = @ + 1]

\* server.py:431-462: the length of the episode summary a transition has
\* logged (writer.log_episode), 0 when it logs none.
episode_summary(eps, c, D, t) ==
    IF packet_terminal(D, t) THEN eps[c] + 1 ELSE 0

\* The record of a call.  For a datagram of the listener: its length (req)
\* and the one before (prev), its sender, whether it decoded to a terminal
\* transition, the summary it logged, and per client the transitions
\* received since that client's last terminal one (since); tick flips with
\* every datagram.  For a direct call on the writer: the length or step
\* (req), the scalars passed (scalars) and the number of messages the queue
\* held before the call (depth).  For a direct record_transition call: the
\* transition given (arg).
NoCall ==
    [op |-> "none", raised |-> "none", full |-> FALSE, passed |-> <<>>,
     flips |-> <<>>, written |-> -1, req |-> 0, slots |-> <<>>, prev |-> 0,
     client |-> 0, terminal |-> FALSE, summary |-> 0, tick |-> 0,
     since |-> [c \in ClientIds |-> 0], scalars |-> <<>>, depth |-> 0,
     arg |-> <<>>]

\* ------------------------------------------------------ TensorBoardWriter
\* The floats handed to the writer: a finite value, NaN and an infinity.
Finite == "0.5"

Floats == {Finite, "nan", "inf"}

\* The 0.0 the code substitutes.
Zero == "0.0"

\* np.isfinite
isfinite(x) == x \notin {"nan", "inf"}

\* tensorboard_writer.py:239   msg = (0, length, reward, avg_q_value)
EpisodeMsg(length, reward, avg_q_value) ==
    [type |-> 0, length |-> length, reward |-> reward,
     avg_q_value |-> avg_q_value]

\* tensorboard_writer.py:269   msg = (1, loss, avg_reward, avg_q_values, step)
\* (the per-action array is left out).
UpdateMsg(loss, avg_reward, update_step) ==
    [type |-> 1, loss |-> loss, avg_reward |-> avg_reward,
     update_step |-> update_step]

\* tensorboard_writer.py:83   the None that stop() puts
Sentinel == [type |-> -1]

\* Mutant of put: the queue has no maximum size.
put_unbounded(q, msg) == [queue |-> Append(q, msg), full |-> FALSE]

\* queue.put(msg, block=False) on mp.Queue(maxsize=...): raises Full at once
\* when the queue holds maxsize messages, else appends.
put(q, msg) ==
    IF Len(q) >= MaxQueue
    THEN [queue |-> q, full |-> TRUE]
    ELSE [queue |-> Append(q, msg), full |-> FALSE]

\* tensorboard_writer.py:225-246 log_episode: a non-finite average becomes 0
\* (234-238); Full is caught (243-244).
log_episode(q, length, reward, avg_q_value) ==
    put(q, EpisodeMsg(length, reward,
                      IF isfinite(avg_q_value) THEN avg_q_value ELSE Zero)).queue

\* tensorboard_writer.py:248-280 log_update: returns at once on a non-finite
\* loss (260-262); a non-finite average reward becomes 0 (263-267); Full is
\* caught (273-276).
log_update(q, loss, avg_reward, update_step) ==
    IF ~isfinite(loss) THEN q
    ELSE put(q, UpdateMsg(loss,
                          IF isfinite(avg_reward) THEN avg_reward ELSE Zero,
                          update_step)).queue

\* server.py:448-458: the end of an episode replaces a non-finite reward by 0
\* and calls log_episode.
end_episode(q, length, reward, avg_q_value) ==
    log_episode(q, length, IF isfinite(reward) THEN reward ELSE Zero,
                avg_q_value)

\* tensorboard_writer.py:71-89 stop() with the consumer thread alive: the
\* sentinel is put without blocking, Full is caught.
stop(q) == put(q, Sentinel).queue

\* tensorboard_writer.py:26-45 __init__: the stop event, the SummaryWriter
\* (open) and the consumer thread, which is "none" until started, then at
\* "begin", at the loop test ("test"), in queue.get ("get"), or "done".
NewWriter == [stop_event |-> FALSE, open |-> TRUE, thread |-> "none"]

\* The writer whose consumer is in its loop.
Listening == [NewWriter EXCEPT !.thread = "test"]

\* self._thread is not None and self._thread.is_alive()
alive(w) == w.thread \notin {"none", "done"}

\* tensorboard_writer.py:47-66 start_listening: nothing is done when the
\* thread is running or the SummaryWriter is missing; else the event is
\* cleared and the thread started.
start_listening(w) ==
    IF alive(w) \/ ~w.open THEN w
    ELSE [w EXCEPT !.stop_event = FALSE, !.thread = "begin"]

\* What one handled transition hands to the writer: the episode summary of a
\* terminal transition (server.py:454-458), then the summary of the update
\* that took the counter from uc to uc2 (server.py:545-550).  The rewards of
\* the datagrams modelled are 0, so every scalar is finite.
log_calls(q, summary, uc, uc2) ==
    LET q1 == IF summary > 0 THEN end_episode(q, summary, Finite, Finite)
              ELSE q
    IN  IF uc2 > uc THEN log_update(q1, Finite, Finite, uc2) ELSE q1

\* ------------------------------------------------- ExperienceMemory.record
\* The while loop of lines 75-82.  p is self.pos, n is num_checked, coins[k]
\* is the outcome of the k-th possible "random.random() < 0.9" of the call
\* (TRUE = keep); a coin is consumed only when the slot tests terminal.
RECURSIVE keep_scan(_, _, _, _, _, _, _)
keep_scan(mem, cap, p, n, coins, passed, flips) ==
    IF terminal_test(mem[p + 1])
    THEN IF coins[n + 2]
         THEN LET p2 == (p + 1) % cap
                  n2 == n + 1
                  ps == Append(passed, p)
                  fs == Append(flips, TRUE)
              IN  IF n2 >= cap
                  THEN [pos |-> p2, passed |-> ps, flips |-> fs]
                  ELSE keep_scan(mem, cap, p2, n2, coins, ps, fs)
         ELSE [pos |-> p, passed |-> passed, flips |-> Append(flips, FALSE)]
    ELSE [pos |-> p, passed |-> passed, flips |-> flips]

\* Lines 69-82: where the write lands on a full buffer.
find_slot(mem, cap, p, coins) ==
    IF terminal_test(mem[p + 1])
    THEN IF coins[1]
         THEN keep_scan(mem, cap, (p + 1) % cap, 0, coins, <<p>>, <<TRUE>>)
         ELSE [pos |-> p, passed |-> <<>>, flips |-> <<FALSE>>]
    ELSE [pos |-> p, passed |-> <<>>, flips |-> <<>>]

\* Mutant of record_transition: appends without the capacity test.
record_transition_always_append(mem, cap, p, t, coins) ==
    IF terminal_idx >= Len(t)
    THEN [raised |-> "IndexError", memory |-> mem, pos |-> p, full |-> FALSE,
          passed |-> <<>>, flips |-> <<>>, written |-> -1]
    ELSE [raised |-> "none", memory |-> Append(mem, t), pos |-> p,
          full |-> FALSE, passed |-> <<>>, flips |-> <<>>,
          written |-> Len(mem)]

\* Mutant of record_transition: when every coin of the scan said keep, the
\* new transition is dropped.
record_transition_drops_when_all_kept(mem, cap, p, t, coins) ==
    IF terminal_idx >= Len(t)
    THEN [raised |-> "IndexError", memory |-> mem, pos |-> p, full |-> FALSE,
          passed |-> <<>>, flips |-> <<>>, written |-> -1]
    ELSE IF Len(mem) < cap
    THEN [raised |-> "none", memory |-> Append(mem, t), pos |-> p,
          full |-> FALSE, passed |-> <<>>, flips |-> <<>>,
          written |-> Len(mem)]
    ELSE LET s == find_slot(mem, cap, p, coins)
         IN  [raised |-> "none",
              memory |-> IF Len(s.passed) > cap THEN mem
                         ELSE [mem EXCEPT ![s.pos + 1] = t],
              pos |-> (s.pos + 1) % cap,
              full |-> TRUE, passed |-> s.passed, flips |-> s.flips,
              written |-> s.pos]

\* Mutant of record_transition: an append advances the cursor.
record_transition_append_moves_cursor(mem, cap, p, t, coins) ==
    IF terminal_idx >= Len(t)
    THEN [raised |-> "IndexError", memory |-> mem, pos |-> p, full |-> FALSE,
          passed |-> <<>>, flips |-> <<>>, written |-> -1]
    ELSE IF Len(mem) < cap
    THEN [raised |-> "none", memory |-> Append(mem, t),
          pos |-> (p + 1) % cap,
          full |-> FALSE, passed |-> <<>>, flips |-> <<>>,
          written |-> Len(mem)]
    ELSE LET s == find_slot(mem, cap, p, coins)
         IN  [raised |-> "none",
              memory |-> [mem EXCEPT ![s.pos + 1] = t],
              pos |-> (s.pos + 1) % cap,
              full |-> TRUE, passed |-> s.passed, flips |-> s.flips,
              written |-> s.pos]

\* experience_memory.py:35-85 record_transition.
record_transition(mem, cap, p, t, coins) ==
    IF terminal_idx >= Len(t)
    THEN [raised |-> "IndexError", memory |-> mem, pos |-> p, full |-> FALSE,
          passed |-> <<>>, flips |-> <<>>, written |-> -1]
    ELSE IF Len(mem) < cap
    THEN [raised |-> "none", memory |-> Append(mem, t), pos |-> p,
          full |-> FALSE, passed |-> <<>>, flips |-> <<>>,
          written |-> Len(mem)]
    ELSE LET s == find_slot(mem, cap, p, coins)
         IN  [raised |-> "none",
              memory |-> [mem EXCEPT ![s.pos + 1] = t],
              pos |-> (s.pos + 1) % cap,
              full |-> TRUE, passed |-> s.passed, flips |-> s.flips,
              written |-> s.pos]

\* ------------------------------------------------ ExperienceMemory.get_batch
\* Mutant of Selections: sampling with replacement (random.choices).
RECURSIVE SelectionsWithReplacement(_, _)
SelectionsWithReplacement(S, n) ==
    IF n = 0 THEN {<<>>}
    ELSE UNION {{<<x>> \o r : r \in SelectionsWithReplacement(S, n - 1)} : x \in S}

\* random.sample(self.memory, n): n positions of the list, no position twice.
RECURSIVE Selections(_, _)
Selections(S, n) ==
    IF n = 0 THEN {<<>>}
    ELSE UNION {{<<x>> \o r : r \in Selections(S \ {x}, n - 1)} : x \in S}

\* experience_memory.py:100: batch_size > len(self.memory)
get_batch_raises(mem, n) == n > Len(mem)

\* experience_memory.py:87-107 get_batch, with the slots random.sample drew.
get_batch(mem, n, slots) ==
    IF get_batch_raises(mem, n)
    THEN [raised |-> "ValueError", batch |-> <<>>]
    ELSE [raised |-> "none", batch |-> [k \in 1..n |-> mem[slots[k]]]]

\* The draws random.sample can make for a request of n (none when it raises).
Draws(mem, n) ==
    IF get_batch_raises(mem, n) THEN {<<>>} ELSE Selections(1..Len(mem), n)

\* ------------------------------------------------------------- the Learner
\* Mutant of should_update: strict comparison.
should_update_strict(mem, bs) == Len(mem) > bs

\* server.py:468   if len(self.memory) >= self.batch_size: perform_update()
should_update(mem, bs) == Len(mem) >= bs

\* Mutant of save_due: the test is made on the counter before its increment.
save_due_before_increment(sf, step) == sf > 0 /\ (step - 1) % sf = 0

\* server.py:589   save_frequency > 0 and current_update_step % save_frequency == 0
save_due(sf, step) == sf > 0 /\ step % sf = 0

\* Mutant of perform_update: a skipped update still bumps the counter.
perform_update_counts_skips(mem, D, bs, uc, nv, sf, slots) ==
    IF Len(mem) < bs \/ get_batch_raises(mem, bs)
    THEN [updates_counter |-> uc + 1, net |-> nv, save |-> FALSE,
          outcome |-> "skipped"]
    ELSE IF ~batch_in_range(mem, D, slots)
    THEN [updates_counter |-> uc, net |-> nv, save |-> FALSE,
          outcome |-> "RuntimeError"]
    ELSE [updates_counter |-> uc + 1, net |-> nv + 1,
          save |-> save_due(sf, uc + 1), outcome |-> "updated"]

\* server.py:476-590 perform_update: the early return (477-481), the sampling
\* failure (483-487), the gather over the sampled actions (511-519), which
\* raises before anything is changed, else one optimizer step and the counter
\* increment (537-539).  slots are the positions random.sample drew.
perform_update(mem, D, bs, uc, nv, sf, slots) ==
    IF Len(mem) < bs
    THEN [updates_counter |-> uc, net |-> nv, save |-> FALSE,
          outcome |-> "skipped"]
    ELSE IF get_batch_raises(mem, bs)
    THEN [updates_counter |-> uc, net |-> nv, save |-> FALSE,
          outcome |-> "skipped"]
    ELSE IF ~batch_in_range(mem, D, slots)
    THEN [updates_counter |-> uc, net |-> nv, save |-> FALSE,
          outcome |-> "RuntimeError"]
    ELSE [updates_counter |-> uc + 1, net |-> nv + 1,
          save |-> save_due(sf, uc + 1), outcome |-> "updated"]

\* The coin outcomes of one record call.  The scan stops at the first coin
\* that says replace, so a call is determined by how many coins say keep.
CoinRuns(mem, cap) ==
    IF Len(mem) < cap
    THEN {[i \in 1..(cap + 1) |-> FALSE]}
    ELSE {[i \in 1..(cap + 1) |-> i <= k] : k \in 0..(cap + 1)}

\* ------------------------------------------------------------------- disk
Threads == {"main", "udp", "http"}

Artifacts == {"onnx", "updates", "pt"}

FileNames == {"onnx", "updates", "pt", "onnx.tmp", "updates.tmp", "pt.tmp"}

\* A file: whether it exists, the parameter version and the update count it
\* records (-1: the file holds none), and which save wrote it (history).
Absent == [exists |-> FALSE, net |-> -1, count |-> -1, save |-> -1]

OnnxFile(nv, id) == [exists |-> TRUE, net |-> nv, count |-> -1, save |-> id]

UpdatesFile(uc, id) == [exists |-> TRUE, net |-> -1, count |-> uc, save |-> id]

PtFile(nv, uc, id) == [exists |-> TRUE, net |-> nv, count |-> uc, save |-> id]

\* A file that exists and cannot be parsed (int() or torch.load raises).
Unreadable == [exists |-> TRUE, net |-> -2, count |-> -2, save |-> -1]

unreadable(f) == f.exists /\ f.count = -2

EmptyDisk == [f \in FileNames |-> Absent]

\* The three artifacts as one complete earlier save (save 0) left at k updates.
SavedDisk(k) ==
    [f \in FileNames |->
        IF f = "onnx" THEN OnnxFile(k, 0)
        ELSE IF f = "updates" THEN UpdatesFile(k, 0)
        ELSE IF f = "pt" THEN PtFile(k, k, 0)
        ELSE Absent]

InitialDisks == {EmptyDisk} \cup {SavedDisk(k) : k \in 0..MaxPrior}

\* The update counts of the files an earlier run may have left.
LoadCounts == 0..(MaxPrior + 1)

\* What may be found at the artifact paths at construction: each artifact
\* absent, unparseable, or written at some earlier count.
LoadDisks ==
    {[f \in FileNames |->
        IF f = "onnx" THEN o
        ELSE IF f = "updates" THEN u
        ELSE IF f = "pt" THEN c
        ELSE Absent] :
      o \in {Absent} \cup {OnnxFile(k, 0) : k \in LoadCounts},
      u \in {Absent, Unreadable} \cup {UpdatesFile(k, 0) : k \in LoadCounts},
      c \in {Absent, Unreadable}
              \cup {PtFile(n, k, 0) : n \in LoadCounts, k \in LoadCounts}}

\* The parameters a new process starts from (random initialisation): a
\* version no earlier process over these paths has produced.
FreshNet(i) == (i - 1) * (MaxUpdates + 1)

\* server.py:709-710 and socketserver.BaseServer: the WeightServer's event,
\* its httpd attribute ("none", "open" once HTTPServer() has bound the
\* socket, "closed" after server_close()) and the two flags by which
\* BaseServer.shutdown() and serve_forever() talk to each other.
NewWeightServer ==
    [shutdown_event |-> FALSE, httpd |-> "none", shutdown_request |-> FALSE,
     is_shut_down |-> FALSE]

\* The WeightServer inside serve_forever.
Serving == [NewWeightServer EXCEPT !.httpd = "open"]

NoResponse == [code |-> 0, count |-> -1, hsave |-> -1, net |-> -1, bsave |-> -1]

\* ------------------------------------------------------------------- Init
InitProcess ==
    /\ batch_size \in 1..MaxBatch
    /\ memory = <<>>
    /\ pos = 0
    /\ updates_counter = 0
    /\ net = 0
    /\ sample = <<>>
    /\ last = NoCall
    /\ nRecorded = 0
    /\ shutdown_event = FALSE
    /\ lock = "free"
    /\ saveSeq = 0
    /\ lastSaved = -1
    /\ hdr = Absent
    /\ response = NoResponse
    /\ episodes = [c \in ClientIds |-> 0]
    /\ queue = <<>>
    /\ instance = 1

\* main.py:203-210: the WeightServer was started first and is serving.
InitCommon ==
    /\ InitProcess
    /\ weight_server = Serving

\* SpecMemory: a bare ExperienceMemory and Learner, no threads, no saving.
InitMemory ==
    /\ InitCommon
    /\ writer = NewWriter
    /\ capacity \in 1..MaxMemCapacity
    /\ state_dims \in StateDimChoices
    /\ save_frequency = 0
    /\ disk0 = EmptyDisk
    /\ files = EmptyDisk
    /\ pc = [t \in Threads |-> "idle"]

\* Spec: WeightServer is started, EnvironmentServer is about to be constructed.
Init ==
    /\ InitCommon
    /\ writer = NewWriter
    /\ capacity \in CapacityChoices
    /\ state_dims = AssumedStateDims
    /\ save_frequency \in 0..MaxSaveFreq
    /\ disk0 \in InitialDisks
    /\ files = disk0
    /\ pc = [t \in Threads |-> IF t = "main" THEN "init_acquire" ELSE "idle"]

\* ------------------------------------------------- ingestor and learner
\* server.py:390-474 _handle_transition on a decoded packet: record it
\* (line 402; an exception leaves everything as it was and is caught by the
\* receive loop, lines 381-385), then the update trigger (468-469).  An
\* exception out of perform_update is caught by the same handler of the
\* receive loop; the transition stays recorded.
handle_transition(mem, cap, p, t, coins, D, bs, uc, nv, sf, slots, eps, c) ==
    LET r == record_transition(mem, cap, p, t, coins)
    IN  IF r.raised # "none"
        THEN [raised |-> r.raised, recorded |-> FALSE, full |-> FALSE,
              memory |-> mem, pos |-> p, episodes |-> eps, summary |-> 0,
              updates_counter |-> uc, net |-> nv, save |-> FALSE]
        ELSE IF should_update(r.memory, bs)
        THEN LET u == perform_update(r.memory, D, bs, uc, nv, sf, slots)
             IN  [raised |-> IF u.outcome = "RuntimeError"
                             THEN "RuntimeError" ELSE "none",
                  recorded |-> TRUE, full |-> r.full,
                  memory |-> r.memory, pos |-> r.pos,
                  episodes |-> episode_step(eps, c, D, t),
                  summary |-> episode_summary(eps, c, D, t),
                  updates_counter |-> u.updates_counter, net |-> u.net,
                  save |-> u.save]
        ELSE [raised |-> "none", recorded |-> TRUE, full |-> r.full,
              memory |-> r.memory, pos |-> r.pos,
              episodes |-> episode_step(eps, c, D, t),
              summary |-> episode_summary(eps, c, D, t),
              updates_counter |-> uc, net |-> nv, save |-> FALSE]

\* Mutant of receive: a datagram of the wrong size is decoded as far as it
\* goes and handled.
receive_without_size_test(d, mem, cap, p, coins, D, bs, uc, nv, sf, slots, eps) ==
    IF too_small(d)
    THEN [raised |-> "none", recorded |-> FALSE, full |-> FALSE,
          memory |-> mem, pos |-> p, episodes |-> eps, summary |-> 0,
          updates_counter |-> uc, net |-> nv, save |-> FALSE]
    ELSE handle_transition(mem, cap, p,
                           IF d.packet = <<>> THEN Packet(D, 0, 0, 0)
                                              ELSE d.packet,
                           coins, D, bs, uc, nv, sf, slots, eps, d.client)

\* server.py:339-359: one datagram in the receive loop: dropped when it is
\* shorter than the id field (341-345) or its payload is not packet_size
\* bytes (350-355), else unpacked and handled.
receive(d, mem, cap, p, coins, D, bs, uc, nv, sf, slots, eps) ==
    IF too_small(d) \/ wrong_size(D, d)
    THEN [raised |-> "none", recorded |-> FALSE, full |-> FALSE,
          memory |-> mem, pos |-> p, episodes |-> eps, summary |-> 0,
          updates_counter |-> uc, net |-> nv, save |-> FALSE]
    ELSE handle_transition(mem, cap, p, d.packet, coins, D, bs, uc, nv, sf,
                           slots, eps, d.client)

\* ------------------------------------------------------- checkpoint store
\* Mutant of load_state: on a counter mismatch the checkpoint's count wins.
load_state_prefers_checkpoint(fs, uc, nv) ==
    IF fs["onnx"].exists /\ fs["updates"].exists
    THEN IF unreadable(fs["updates"])
         THEN [updates_counter |-> uc, net |-> nv, needs_initial_save |-> TRUE]
         ELSE IF fs["pt"].exists /\ ~unreadable(fs["pt"])
         THEN [updates_counter |-> fs["pt"].count, net |-> fs["pt"].net,
               needs_initial_save |-> FALSE]
         ELSE [updates_counter |-> fs["updates"].count, net |-> nv,
               needs_initial_save |-> TRUE]
    ELSE [updates_counter |-> uc, net |-> nv, needs_initial_save |-> TRUE]

\* Mutant of load_state: a missing or unloadable checkpoint is only logged.
load_state_without_resync(fs, uc, nv) ==
    IF fs["onnx"].exists /\ fs["updates"].exists
    THEN IF unreadable(fs["updates"])
         THEN [updates_counter |-> uc, net |-> nv, needs_initial_save |-> TRUE]
         ELSE IF fs["pt"].exists /\ ~unreadable(fs["pt"])
         THEN [updates_counter |-> fs["updates"].count, net |-> fs["pt"].net,
               needs_initial_save |-> FALSE]
         ELSE [updates_counter |-> fs["updates"].count, net |-> nv,
               needs_initial_save |-> FALSE]
    ELSE [updates_counter |-> uc, net |-> nv, needs_initial_save |-> TRUE]

\* server.py:131-193: what _initialize_network_state reads from the disk.
\* An updates file int() cannot parse leaves the counter as constructed and
\* asks for the initial save (183-188); a checkpoint torch.load cannot load
\* keeps the file's count and asks for it too (161-170); a checkpoint whose
\* count differs from the file's is loaded and the file's count is used
\* (151-160).
load_state(fs, uc, nv) ==
    IF fs["onnx"].exists /\ fs["updates"].exists
    THEN IF unreadable(fs["updates"])
         THEN [updates_counter |-> uc, net |-> nv, needs_initial_save |-> TRUE]
         ELSE LET loaded_updates == fs["updates"].count
              IN  IF fs["pt"].exists
                  THEN IF unreadable(fs["pt"])
                       THEN [updates_counter |-> loaded_updates, net |-> nv,
                             needs_initial_save |-> TRUE]
                       ELSE IF fs["pt"].count = loaded_updates
                       THEN [updates_counter |-> loaded_updates,
                             net |-> fs["pt"].net,
                             needs_initial_save |-> FALSE]
                       ELSE [updates_counter |-> loaded_updates,
                             net |-> fs["pt"].net,
                             needs_initial_save |-> FALSE]
                  ELSE [updates_counter |-> loaded_updates, net |-> nv,
                        needs_initial_save |-> TRUE]
    ELSE [updates_counter |-> uc, net |-> nv, needs_initial_save |-> TRUE]

\* The threads that save: the owner thread (construction, shutdown) and the
\* UDP listener (periodic save inside perform_update).
Savers == {"main", "udp"}

\* Labels of _save_network_internal (server.py:219-264), "saved" being the
\* point after the last os.replace.
SaveLabels ==
    {"export", "write_updates", "torch_save", "replace_onnx",
     "replace_updates", "replace_pt", "saved"}

\* Labels at which a thread reads or writes artifact files.
AccessLabels ==
    {"init_load", "unlock"} \cup SaveLabels
        \cup {"save_raised", "save_caught"}
        \cup {"get_check", "get_read_updates", "get_read_onnx"}

\* Where a saver continues once _save_network / __init__ has returned.
ReturnTo(t) ==
    IF t = "udp" THEN "loop"
    ELSE IF shutdown_event THEN "exited" ELSE "start"

Goto(t, label) == pc' = [pc EXCEPT ![t] = label]

\* server.py:121 with the lock free.
InitAcquire ==
    /\ pc["main"] = "init_acquire"
    /\ lock = "free"
    /\ lock' = "main"
    /\ Goto("main", "init_load")
    /\ UNCHANGED <<cfgVars, writer, queue, episodes, bufVars, learnVars, callVars, nRecorded,
                   shutdown_event, diskVars, httpVars>>

\* Mutant of InitLockTimeout: the timeout is logged and the load goes on.
InitLockTimeoutProceeds ==
    /\ pc["main"] = "init_acquire"
    /\ lock # "free"
    /\ Goto("main", "init_load")
    /\ UNCHANGED <<cfgVars, writer, queue, episodes, bufVars, learnVars, callVars, nRecorded,
                   shutdown_event, diskVars, lock, httpVars>>

\* server.py:122-126: the lock stayed taken for 20 s; TimeoutError.
InitLockTimeout ==
    /\ pc["main"] = "init_acquire"
    /\ lock # "free"
    /\ Goto("main", "failed")
    /\ UNCHANGED <<cfgVars, writer, queue, episodes, bufVars, learnVars, callVars, nRecorded,
                   shutdown_event, diskVars, lock, httpVars>>

\* Mutant of InitLoad: the initial save is left out.
InitLoadWithoutSave ==
    /\ pc["main"] = "init_load"
    /\ LET r == load_state(files, updates_counter, net)
       IN  /\ net' = r.net
           /\ updates_counter' = IF r.needs_initial_save THEN 0
                                  ELSE r.updates_counter
           /\ Goto("main", "unlock")
    /\ UNCHANGED <<cfgVars, writer, queue, episodes, bufVars, callVars, nRecorded,
                   shutdown_event, diskVars, lock, httpVars>>

\* server.py:129-197: load what is there; a needed initial save resets the
\* counter to 0 (line 197) and enters _save_network_internal (line 198).
InitLoad ==
    /\ pc["main"] = "init_load"
    /\ LET r == load_state(files, updates_counter, net)
       IN  /\ net' = r.net
           /\ IF r.needs_initial_save
              THEN updates_counter' = 0 /\ Goto("main", "export")
              ELSE updates_counter' = r.updates_counter
                     /\ Goto("main", "unlock")
    /\ UNCHANGED <<cfgVars, writer, queue, episodes, bufVars, callVars, nRecorded, shutdown_event,
                   diskVars, lock, httpVars>>

\* server.py:290 with the lock free.
SaveAcquire(t) ==
    /\ pc[t] = "save_acquire"
    /\ lock = "free"
    /\ lock' = t
    /\ Goto(t, "export")
    /\ UNCHANGED <<cfgVars, writer, queue, episodes, bufVars, learnVars, callVars, nRecorded,
                   shutdown_event, diskVars, httpVars>>

\* Mutant of SaveLockTimeout: the timeout is logged but the save goes on.
SaveLockTimeoutProceeds(t) ==
    /\ pc[t] = "save_acquire"
    /\ lock \notin {"free", t}
    /\ Goto(t, "export")
    /\ UNCHANGED <<cfgVars, writer, queue, episodes, bufVars, learnVars, callVars, nRecorded,
                   shutdown_event, diskVars, lock, httpVars>>

\* Mutant of SaveLockTimeout: the skipped save releases the lock on its way
\* out, as if the return sat inside the try.
SaveLockTimeoutReleases(t) ==
    /\ pc[t] = "save_acquire"
    /\ lock \notin {"free", t}
    /\ lock' = "free"
    /\ Goto(t, ReturnTo(t))
    /\ UNCHANGED <<cfgVars, writer, queue, episodes, bufVars, learnVars, callVars, nRecorded,
                   shutdown_event, diskVars, httpVars>>

\* server.py:291-295: the lock stayed taken for 10 s; the save is skipped.
SaveLockTimeout(t) ==
    /\ pc[t] = "save_acquire"
    /\ lock \notin {"free", t}
    /\ Goto(t, ReturnTo(t))
    /\ UNCHANGED <<cfgVars, writer, queue, episodes, bufVars, learnVars, callVars, nRecorded,
                   shutdown_event, diskVars, lock, httpVars>>

\* server.py:228-241 torch.onnx.export to the temp file.
SaveExport(t) ==
    /\ pc[t] = "export"
    /\ saveSeq' = saveSeq + 1
    /\ files' = [files EXCEPT !["onnx.tmp"] = OnnxFile(net, saveSeq + 1)]
    /\ Goto(t, "write_updates")
    /\ UNCHANGED <<cfgVars, writer, queue, episodes, bufVars, learnVars, callVars, nRecorded,
                   shutdown_event, lastSaved, lock, httpVars>>

\* server.py:246-247 the counter file's temp file.
SaveWriteUpdates(t) ==
    /\ pc[t] = "write_updates"
    /\ files' = [files EXCEPT
                   !["updates.tmp"] = UpdatesFile(updates_counter, saveSeq)]
    /\ Goto(t, "torch_save")
    /\ UNCHANGED <<cfgVars, writer, queue, episodes, bufVars, learnVars, callVars, nRecorded,
                   shutdown_event, saveSeq, lastSaved, lock, httpVars>>

\* server.py:249-256 torch.save of the resumable checkpoint's temp file.
SaveTorchSave(t) ==
    /\ pc[t] = "torch_save"
    /\ files' = [files EXCEPT
                   !["pt.tmp"] = PtFile(net, updates_counter, saveSeq)]
    /\ Goto(t, "replace_onnx")
    /\ UNCHANGED <<cfgVars, writer, queue, episodes, bufVars, learnVars, callVars, nRecorded,
                   shutdown_event, saveSeq, lastSaved, lock, httpVars>>

\* os.replace(src, dst)
replace(fs, src, dst) == [fs EXCEPT ![dst] = fs[src], ![src] = Absent]

\* server.py:258
SaveReplaceOnnx(t) ==
    /\ pc[t] = "replace_onnx"
    /\ files' = replace(files, "onnx.tmp", "onnx")
    /\ Goto(t, "replace_updates")
    /\ UNCHANGED <<cfgVars, writer, queue, episodes, bufVars, learnVars, callVars, nRecorded,
                   shutdown_event, saveSeq, lastSaved, lock, httpVars>>

\* server.py:259: the counter file is renamed into place; its count is now
\* the one last published.
SaveReplaceUpdates(t) ==
    /\ pc[t] = "replace_updates"
    /\ files' = replace(files, "updates.tmp", "updates")
    /\ lastSaved' = files["updates.tmp"].count
    /\ Goto(t, "replace_pt")
    /\ UNCHANGED <<cfgVars, writer, queue, episodes, bufVars, learnVars, callVars, nRecorded,
                   shutdown_event, saveSeq, lock, httpVars>>

\* server.py:260-264
SaveReplacePt(t) ==
    /\ pc[t] = "replace_pt"
    /\ files' = replace(files, "pt.tmp", "pt")
    /\ Goto(t, "saved")
    /\ UNCHANGED <<cfgVars, writer, queue, episodes, bufVars, learnVars, callVars, nRecorded,
                   shutdown_event, saveSeq, lastSaved, lock, httpVars>>

\* Mutant of Release: the release follows the save inside the try, so a
\* save that raised returns with the lock still held.
ReleaseOnSuccessOnly(t) ==
    /\ pc[t] \in {"saved", "unlock", "save_caught"}
    /\ lock' = IF pc[t] = "save_caught" THEN lock ELSE "free"
    /\ Goto(t, ReturnTo(t))
    /\ UNCHANGED <<cfgVars, writer, queue, episodes, bufVars, learnVars, callVars, nRecorded,
                   shutdown_event, diskVars, httpVars>>

\* server.py:208-210 and 301-303: finally: self.lock.release(), after the
\* body ended normally or, in _save_network, after its except clause.
Release(t) ==
    /\ pc[t] \in {"saved", "unlock", "save_caught"}
    /\ lock' = "free"
    /\ Goto(t, ReturnTo(t))
    /\ UNCHANGED <<cfgVars, writer, queue, episodes, bufVars, learnVars, callVars, nRecorded,
                   shutdown_event, diskVars, httpVars>>

\* ------------------------------------------------ failures inside a save
TempNames == {"onnx.tmp", "updates.tmp", "pt.tmp"}

\* server.py:272-282: os.remove of every temp file that exists.
remove_temps(fs) == [f \in FileNames |-> IF f \in TempNames THEN Absent ELSE fs[f]]

\* server.py:266-283: a statement of _save_network_internal raises (the
\* export, a write or an os.replace, which then has not happened); the
\* except clause removes the temp files and raises again.
SaveRaise(t) ==
    /\ pc[t] \in SaveLabels \ {"saved"}
    /\ files' = remove_temps(files)
    /\ Goto(t, "save_raised")
    /\ UNCHANGED <<cfgVars, writer, queue, episodes, bufVars, learnVars, callVars, nRecorded,
                   shutdown_event, saveSeq, lastSaved, lock, httpVars>>

\* server.py:203-210: the initial save raised inside
\* _initialize_network_state: logged, raised again, the lock released in
\* finally; the constructor fails.
InitSaveFailed ==
    /\ pc["main"] = "save_raised"
    /\ ~shutdown_event
    /\ lock' = "free"
    /\ Goto("main", "failed")
    /\ UNCHANGED <<cfgVars, writer, queue, episodes, bufVars, learnVars, callVars, nRecorded,
                   shutdown_event, diskVars, httpVars>>

\* server.py:299-300: _save_network catches what _save_network_internal
\* raised and logs it; control is in the except clause.
SaveCaught(t) ==
    /\ pc[t] = "save_raised"
    /\ t = "main" => shutdown_event
    /\ Goto(t, "save_caught")
    /\ UNCHANGED <<cfgVars, writer, queue, episodes, bufVars, learnVars, callVars, nRecorded,
                   shutdown_event, diskVars, lock, httpVars>>

\* server.py:305-310 start(): the writer's consumer and the UDP listener
\* thread begin and start() returns; main.py goes on to its serving loop
\* (250-256).
Start ==
    /\ pc["main"] = "start"
    /\ pc' = [pc EXCEPT !["main"] = "serving", !["udp"] = "bind"]
    /\ writer' = start_listening(writer)
    /\ UNCHANGED <<cfgVars, queue, episodes, bufVars, learnVars, callVars, nRecorded,
                   shutdown_event, diskVars, lock, httpVars>>

\* server.py:312-318 shutdown(), called by the signal handler on the owner
\* thread: set the event, stop the writer, then the final _save_network().
Signal ==
    /\ pc["main"] = "serving"
    /\ shutdown_event' = TRUE
    /\ writer' = IF alive(writer) THEN [writer EXCEPT !.stop_event = TRUE]
                 ELSE [writer EXCEPT !.open = FALSE]
    /\ queue' = IF alive(writer) THEN stop(queue) ELSE queue
    /\ Goto("main", "save_acquire")
    /\ UNCHANGED <<cfgVars, episodes, bufVars, learnVars, callVars, nRecorded,
                   diskVars, lock, httpVars>>

\* ---------------------------------------------------------- UDP listener
\* server.py:322-329: the socket is created, bound and given its timeout.
UdpBind ==
    /\ pc["udp"] = "bind"
    /\ Goto("udp", "loop")
    /\ UNCHANGED <<cfgVars, writer, queue, episodes, bufVars, learnVars, callVars, nRecorded,
                   shutdown_event, diskVars, lock, httpVars>>

\* server.py:330-335: bind raises OSError; _run logs the error and returns,
\* which ends the listener thread.
UdpBindFails ==
    /\ pc["udp"] = "bind"
    /\ Goto("udp", "unbound")
    /\ UNCHANGED <<cfgVars, writer, queue, episodes, bufVars, learnVars, callVars, nRecorded,
                   shutdown_event, diskVars, lock, httpVars>>

\* Mutant of UdpLoop: the loop does not test the shutdown event.
UdpLoopIgnoresShutdown ==
    /\ pc["udp"] = "loop"
    /\ Goto("udp", "recv")
    /\ UNCHANGED <<cfgVars, writer, queue, episodes, bufVars, learnVars, callVars, nRecorded,
                   shutdown_event, diskVars, lock, httpVars>>

\* server.py:337   while not self.shutdown_event.is_set(), else sock.close()
UdpLoop ==
    /\ pc["udp"] = "loop"
    /\ Goto("udp", IF shutdown_event THEN "finished" ELSE "recv")
    /\ UNCHANGED <<cfgVars, writer, queue, episodes, bufVars, learnVars, callVars, nRecorded,
                   shutdown_event, diskVars, lock, httpVars>>

\* server.py:361-362   recvfrom timed out
UdpTimeout ==
    /\ pc["udp"] = "recv"
    /\ Goto("udp", "loop")
    /\ UNCHANGED <<cfgVars, writer, queue, episodes, bufVars, learnVars, callVars, nRecorded,
                   shutdown_event, diskVars, lock, httpVars>>

\* The transitions each client has sent since its last terminal one, after
\* datagram d has arrived (history: counted from what arrives, not from
\* what the server keeps).
since_step(since, D, d) ==
    IF too_small(d) \/ wrong_size(D, d) THEN since
    ELSE IF packet_terminal(D, d.packet) THEN [since EXCEPT ![d.client] = 0]
    ELSE [since EXCEPT ![d.client] = @ + 1]

\* Mutant of after_datagram: an exception out of the handling is not caught
\* in the loop and ends the listener thread.
after_datagram_uncaught(h) ==
    IF h.raised # "none" THEN "finished"
    ELSE IF h.save THEN "save_acquire" ELSE "loop"

\* server.py:359-385: where the listener is once a datagram has been dealt
\* with: every exception is caught by an except clause of the loop body
\* (363-385), so it is back at the loop test, unless perform_update has
\* called _save_network (line 590).
after_datagram(h) == IF h.save THEN "save_acquire" ELSE "loop"

\* server.py:339-385: a datagram arrives; it is dropped or handled, and the
\* loop goes on (or into the periodic save perform_update calls, line 590).
\* With track the metrics side of the listener is followed: last keeps the
\* history of the datagrams (see NoCall), the summaries are handed to the
\* writer's queue, and a client sends at most MaxPackets transitions per
\* episode.  Without it the summaries are left out and the queue stays as it
\* is.  senders are the clients whose datagrams arrive.
Receive(track, senders) ==
    /\ pc["udp"] = "recv"
    /\ nRecorded < MaxPackets
    /\ updates_counter < MaxUpdates
    /\ \E d \in Datagrams(state_dims, senders), coins \in CoinRuns(memory, capacity) :
         /\ IF track /\ ~(too_small(d) \/ wrong_size(state_dims, d))
            THEN last.since[d.client] < MaxPackets
            ELSE TRUE
         /\ \E slots \in Draws(record_transition(memory, capacity, pos,
                                                   d.packet, coins).memory,
                                  batch_size) :
              LET h == receive(d, memory, capacity, pos, coins, state_dims,
                               batch_size, updates_counter, net, save_frequency,
                               slots, episodes)
              IN  /\ memory' = h.memory
                  /\ pos' = h.pos
                  /\ episodes' = h.episodes
                  /\ updates_counter' = h.updates_counter
                  /\ net' = h.net
                  /\ nRecorded' = IF h.recorded THEN nRecorded + 1 ELSE nRecorded
                  /\ queue' = IF track
                              THEN log_calls(queue, h.summary, updates_counter,
                                             h.updates_counter)
                              ELSE queue
                  /\ Goto("udp", after_datagram(h))
                  /\ last' = IF track
                             THEN [NoCall EXCEPT
                                     !.op = "receive", !.req = d.len,
                                     !.raised = h.raised, !.prev = last.req,
                                     !.tick = 1 - last.tick,
                                     !.client = d.client,
                                     !.terminal =
                                         /\ ~(too_small(d) \/ wrong_size(state_dims, d))
                                         /\ packet_terminal(state_dims, d.packet),
                                     !.summary = h.summary,
                                     !.since = since_step(last.since, state_dims, d)]
                             ELSE last
    /\ UNCHANGED <<cfgVars, writer, sample, shutdown_event, diskVars, lock,
                   httpVars>>

\* The listener of the whole server, with one client sending.
UdpDatagram == Receive(FALSE, {1})

\* -------------------------------------------------- WeightServer do_GET
\* Mutant of GetAcquire: the handler goes on without taking the lock.
GetAcquireWithoutLock ==
    /\ pc["http"] = "idle"
    /\ Goto("http", "get_check")
    /\ hdr' = Absent
    /\ response' = NoResponse
    /\ UNCHANGED <<cfgVars, writer, queue, episodes, bufVars, learnVars, callVars, nRecorded,
                   shutdown_event, weight_server, diskVars, lock>>

\* server.py:617 with the lock free: a request is being served.
GetAcquire ==
    /\ pc["http"] = "idle"
    /\ lock = "free"
    /\ lock' = "http"
    /\ Goto("http", "get_check")
    /\ hdr' = Absent
    /\ response' = NoResponse
    /\ UNCHANGED <<cfgVars, writer, queue, episodes, bufVars, learnVars, callVars, nRecorded,
                   shutdown_event, weight_server, diskVars>>

\* Mutant of GetLockTimeout: the 503 is sent from inside the try, so the
\* finally releases a lock the handler never took.
GetLockTimeoutReleases ==
    /\ pc["http"] = "idle"
    /\ lock # "free"
    /\ lock' = "free"
    /\ response' = [NoResponse EXCEPT !.code = 503]
    /\ UNCHANGED <<cfgVars, writer, queue, episodes, bufVars, learnVars, callVars, nRecorded,
                   shutdown_event, weight_server, diskVars, pc, hdr>>

\* server.py:618-623: the lock stayed taken for 5 s; 503.
GetLockTimeout ==
    /\ pc["http"] = "idle"
    /\ lock # "free"
    /\ response' = [NoResponse EXCEPT !.code = 503]
    /\ UNCHANGED <<cfgVars, writer, queue, episodes, bufVars, learnVars, callVars, nRecorded,
                   shutdown_event, weight_server, diskVars, lock, pc, hdr>>

\* Mutant of GetCheck: the files are opened without the existence test.
GetCheckWithoutExistsTest ==
    /\ pc["http"] = "get_check"
    /\ Goto("http", "get_read_updates")
    /\ UNCHANGED <<cfgVars, writer, queue, episodes, bufVars, learnVars, callVars, nRecorded,
                   shutdown_event, diskVars, lock, httpVars>>

\* server.py:629-632 and 672-684: both files must exist, else 404.
GetCheck ==
    /\ pc["http"] = "get_check"
    /\ IF files["onnx"].exists /\ files["updates"].exists
       THEN /\ Goto("http", "get_read_updates")
            /\ UNCHANGED <<lock, response>>
       ELSE /\ response' = [NoResponse EXCEPT !.code = 404]
            /\ lock' = "free"
            /\ Goto("http", "idle")
    /\ UNCHANGED <<cfgVars, writer, queue, episodes, bufVars, learnVars, callVars, nRecorded,
                   shutdown_event, weight_server, diskVars, hdr>>

\* server.py:634-643: read the counter file (500 if that fails).
GetReadUpdates ==
    /\ pc["http"] = "get_read_updates"
    /\ IF files["updates"].exists
       THEN /\ hdr' = files["updates"]
            /\ Goto("http", "get_read_onnx")
            /\ UNCHANGED <<lock, response>>
       ELSE /\ response' = [NoResponse EXCEPT !.code = 500]
            /\ lock' = "free"
            /\ Goto("http", "idle")
            /\ UNCHANGED hdr
    /\ UNCHANGED <<cfgVars, writer, queue, episodes, bufVars, learnVars, callVars, nRecorded,
                   shutdown_event, weight_server, diskVars>>

\* server.py:645-684: send 200, the counter header and the ONNX bytes (404 if
\* the file is gone), then release the lock.
GetReadOnnx ==
    /\ pc["http"] = "get_read_onnx"
    /\ response' = IF files["onnx"].exists
                   THEN [code |-> 200, count |-> hdr.count,
                         hsave |-> hdr.save, net |-> files["onnx"].net,
                         bsave |-> files["onnx"].save]
                   ELSE [NoResponse EXCEPT !.code = 404]
    /\ hdr' = Absent
    /\ lock' = "free"
    /\ Goto("http", "idle")
    /\ UNCHANGED <<cfgVars, writer, queue, episodes, bufVars, learnVars, callVars, nRecorded,
                   shutdown_event, weight_server, diskVars>>

\* Mutant of GetReadFails: the handler removes the file it could not read.
GetReadFailsRemovesFile ==
    /\ pc["http"] \in {"get_read_updates", "get_read_onnx"}
    /\ response' = [NoResponse EXCEPT !.code = 500]
    /\ files' = [files EXCEPT ![IF pc["http"] = "get_read_updates"
                                 THEN "updates" ELSE "onnx"] = Absent]
    /\ hdr' = Absent
    /\ lock' = "free"
    /\ Goto("http", "idle")
    /\ UNCHANGED <<cfgVars, writer, queue, episodes, bufVars, learnVars, callVars, nRecorded,
                   shutdown_event, weight_server, saveSeq, lastSaved>>

\* server.py:636-643 and 662-670: reading the counter file or the ONNX file
\* raises; 500 is sent and the lock released in finally.
GetReadFails ==
    /\ pc["http"] \in {"get_read_updates", "get_read_onnx"}
    /\ response' = [NoResponse EXCEPT !.code = 500]
    /\ hdr' = Absent
    /\ lock' = "free"
    /\ Goto("http", "idle")
    /\ UNCHANGED <<cfgVars, writer, queue, episodes, bufVars, learnVars, callVars, nRecorded,
                   shutdown_event, weight_server, diskVars>>

Next ==
    \/ InitAcquire
    \/ InitLockTimeout
    \/ InitLoad
    \/ \E t \in Savers : SaveAcquire(t)
    \/ \E t \in Savers : SaveLockTimeout(t)
    \/ \E t \in Savers : SaveExport(t)
    \/ \E t \in Savers : SaveWriteUpdates(t)
    \/ \E t \in Savers : SaveTorchSave(t)
    \/ \E t \in Savers : SaveReplaceOnnx(t)
    \/ \E t \in Savers : SaveReplaceUpdates(t)
    \/ \E t \in Savers : SaveReplacePt(t)
    \/ \E t \in Savers : Release(t)
    \/ Start
    \/ UdpBind
    \/ Signal
    \/ UdpLoop
    \/ UdpTimeout
    \/ UdpDatagram
    \/ GetAcquire
    \/ GetLockTimeout
    \/ GetCheck
    \/ GetReadUpdates
    \/ GetReadOnnx

Spec == Init /\ [][Next]_vars

\* =========================================================== claims, Spec

\* A thread is inside its read or write of the artifacts.
Accessing(t) == pc[t] \in AccessLabels

\* C2: whenever a save has completed, the counter file and the resumable
\* checkpoint record the same update counter.
C2_SavedCountersAgree ==
    \A t \in Savers :
        pc[t] = "saved" => files["updates"].count = files["pt"].count

C4_LockHeldForWholeAccess ==
    /\ \A t \in Threads : Accessing(t) => lock = t
    /\ \A t1, t2 \in Threads : (Accessing(t1) /\ Accessing(t2)) => t1 = t2

\* C4 witness: the GET handler is reading while the listener waits for the
\* lock to do a periodic save.
C4_ReaderInsideSaverWaiting ==
    /\ pc["http"] = "get_read_onnx"
    /\ lock = "http"
    /\ pc["udp"] = "save_acquire"

\* C5: a recorded transition that leaves at least batch_size transitions in
\* the buffer raises updates_counter by exactly one.
C5_OneUpdatePerRecord ==
    [][(nRecorded' = nRecorded + 1 /\ Len(memory') >= batch_size)
          => updates_counter' = updates_counter + 1]_vars

\* The end-to-end scenario of C6: capacity 4, batch size 2, a fresh start,
\* only non-terminal transitions recorded.
C6Scenario ==
    /\ capacity = 4
    /\ batch_size = 2
    /\ disk0 = EmptyDisk
    /\ \A i \in 1..Len(memory) : ~packet_terminal(state_dims, memory[i])

C17_SkippedSaveTouchesNothing ==
    [][\A t \in Savers :
          (pc[t] = "save_acquire" /\ lock # "free" /\ pc'[t] # "save_acquire")
          => /\ files' = files
             /\ saveSeq' = saveSeq
             /\ lock' = lock
             /\ updates_counter' = updates_counter
             /\ memory' = memory
             /\ pc'[t] = ReturnTo(t)]_vars

\* C17 witness: with save_frequency 1 the first update's save was skipped
\* (the only save so far is the initial one), the GET handler holds the
\* lock, and the listener then recorded a second transition.
C17_ListenerWentOn ==
    /\ save_frequency = 1
    /\ disk0 = EmptyDisk
    /\ saveSeq = 1
    /\ updates_counter = 1
    /\ nRecorded = 2
    /\ lock = "http"
    /\ pc["udp"] = "loop"

\* C22: a GET that cannot get the lock is answered 503; the handler reads
\* no file, leaves the lock with its holder, and is ready for the next
\* request.
C22_GetTimeoutIs503 ==
    [][(pc["http"] = "idle" /\ lock # "free" /\ response' # response)
         => /\ response'.code = 503
            /\ response'.count = -1 /\ response'.net = -1
            /\ hdr' = hdr
            /\ files' = files
            /\ lock' = lock
            /\ pc'["http"] = "idle"]_vars

\* C22 witness: a 503 was sent while the listener is inside its periodic
\* save, which still holds the lock.
C22_RefusedDuringSave ==
    /\ response.code = 503
    /\ lock = "udp"
    /\ pc["udp"] = "replace_updates"
    /\ pc["http"] = "idle"

\* C19: when construction cannot get the lock, it fails without reading or
\* writing an artifact and without releasing the lock, and no listener is
\* ever started.
C19_InitTimeoutIsFatal ==
    /\ [](pc["main"] = "failed"
            => /\ files = disk0
               /\ saveSeq = 0
               /\ updates_counter = 0
               /\ pc["udp"] = "idle")
    /\ [][(pc["main"] = "init_acquire" /\ lock # "free"
             /\ pc'["main"] # "init_acquire")
          => /\ pc'["main"] = "failed"
             /\ lock' = lock
             /\ files' = files]_vars

\* C19 witness: construction has failed and the GET handler that held the
\* lock has since answered.
C19_FailedWhileServing ==
    /\ pc["main"] = "failed"
    /\ lock = "free"
    /\ response.code # 0

\* ------------------------------------------- SpecFault: saves that raise
InitFault ==
    /\ InitCommon
    /\ writer = NewWriter
    /\ capacity = 1
    /\ state_dims = AssumedStateDims
    /\ batch_size = 1
    /\ save_frequency = 1
    /\ disk0 = EmptyDisk
    /\ files = disk0
    /\ pc = [t \in Threads |-> IF t = "main" THEN "init_acquire" ELSE "idle"]

NextFault ==
    \/ Next
    \/ \E t \in Savers : SaveRaise(t)
    \/ InitSaveFailed
    \/ \E t \in Savers : SaveCaught(t)
    \/ GetReadFails

\* A step of thread t inside its artifact section.  Each is a file
\* operation or a return, which ends in bounded time once t is scheduled.
SectionStep(t) ==
    \/ t = "main" /\ (InitLoad \/ InitSaveFailed)
    \/ t \in Savers
         /\ \/ SaveExport(t) \/ SaveWriteUpdates(t) \/ SaveTorchSave(t)
            \/ SaveReplaceOnnx(t) \/ SaveReplaceUpdates(t) \/ SaveReplacePt(t)
            \/ SaveRaise(t) \/ SaveCaught(t) \/ Release(t)
    \/ t = "http" /\ (GetCheck \/ GetReadUpdates \/ GetReadOnnx \/ GetReadFails)

\* Every thread inside its section is eventually scheduled.
SpecFault ==
    InitFault /\ [][NextFault]_vars /\ \A t \in Threads : WF_vars(SectionStep(t))

\* C18: when a save raises, the temp files are gone when the exception
\* leaves _save_network_internal, and the exception reaches the caller of
\* save(): it is never caught inside save().
C18_SaveFailurePropagates ==
    \A t \in Savers :
        /\ pc[t] = "save_raised" => \A f \in TempNames : ~files[f].exists
        /\ pc[t] # "save_caught"

\* C38: when a statement of a save raises, no published artifact is one the
\* failing save wrote, and the published artifacts that exist are those of
\* one and the same save.
C38_FailedSavePublishesNothing ==
    [][\A t \in Savers :
          (pc'[t] = "save_raised" /\ pc[t] # "save_raised") =>
             LET failing == IF pc[t] = "export" THEN saveSeq + 1 ELSE saveSeq
             IN  /\ \A f \in Artifacts :
                       files'[f].exists => files'[f].save # failing
                 /\ \A f, g \in Artifacts :
                       (files'[f].exists /\ files'[g].exists)
                           => files'[f].save = files'[g].save]_vars

\* A GET has just been answered by this step.
Answered == response'.code # 0 /\ response' # response

Published(fs) == fs["onnx"].exists /\ fs["updates"].exists

\* C21 as stated: every GET answered while the ONNX file or the counter
\* file is missing is a 404, and every GET answered after a save has
\* published its counter is a 200 whose header is that counter.
C21_GetFollowsFirstSave ==
    [][Answered
         => /\ ~Published(files) => response'.code = 404
            /\ lastSaved # -1 => /\ response'.code = 200
                                 /\ response'.count = lastSaved]_vars

\* C21 amended: a GET that got the lock is answered 404 while the ONNX file
\* or the counter file is missing; once a save has published its counter, a
\* GET that got the lock and could read both files is answered 200 with
\* the counter last published.
C21_LockedGetFollowsFirstSave ==
    [][(Answered /\ lock = "http")
         => /\ ~Published(files) => response'.code = 404
            /\ (lastSaved # -1 /\ response'.code # 500)
                 => /\ response'.code = 200
                    /\ response'.count = lastSaved]_vars

\* C21 witness: started on an empty directory, a GET after the periodic
\* save that followed the first update was answered 200 with header 1.
C21_ServedAfterPeriodicSave ==
    /\ disk0 = EmptyDisk
    /\ saveSeq = 2
    /\ lastSaved = 1
    /\ response.code = 200
    /\ response.count = 1
    /\ lock = "free"

\* C23: no step of the GET handler, whatever it answers, changes a file,
\* the update counter, the parameters or the replay buffer.
C23_GetChangesNothing ==
    [][(pc'["http"] # pc["http"] \/ response' # response \/ hdr' # hdr)
         => /\ files' = files
            /\ updates_counter' = updates_counter
            /\ net' = net
            /\ memory' = memory
            /\ pos' = pos]_vars

\* C23 witness: a GET was answered 500 after a save had completed and an
\* update had been made; the three artifacts are still there.
C23_FailedReadLeftFiles ==
    /\ response.code = 500
    /\ lastSaved # -1
    /\ updates_counter >= 1
    /\ \A f \in Artifacts : files[f].exists

\* C20: the lock is taken only when free and by a thread entering its
\* artifact section, it is given up only by the thread holding it as that
\* thread leaves its section, every way out of a section (normal, skipped,
\* or by exception) gives it up, and a held lock is always freed in the end.
C20_AcquireReleasePaired ==
    /\ [][\A t \in Threads :
             /\ (lock # t /\ lock' = t) => (lock = "free" /\ Accessing(t)')
             /\ (lock = t /\ lock' # t)
                   => (lock' = "free" /\ Accessing(t) /\ ~Accessing(t)')
             /\ (Accessing(t) /\ ~Accessing(t)')
                   => (lock = t /\ lock' = "free")]_vars
    /\ \A t \in Threads : (lock = t) ~> (lock = "free")

\* C20 witness: the initial save raised after the ONNX file had been
\* replaced; construction failed and the lock is free again.
C20_ReleasedAfterException ==
    /\ pc["main"] = "failed"
    /\ lock = "free"
    /\ files["onnx"].exists
    /\ ~files["updates"].exists

\* ------------------------------------------- SpecLoad: construction alone
\* One EnvironmentServer is constructed over whatever the paths hold.
InitAtLoad ==
    /\ InitCommon
    /\ writer = NewWriter
    /\ capacity = 1
    /\ state_dims = AssumedStateDims
    /\ save_frequency = 0
    /\ disk0 \in LoadDisks
    /\ files = disk0
    /\ pc = [t \in Threads |-> IF t = "main" THEN "init_acquire" ELSE "idle"]

NextLoad ==
    \/ InitAcquire
    \/ InitLoad
    \/ SaveExport("main")
    \/ SaveWriteUpdates("main")
    \/ SaveTorchSave("main")
    \/ SaveReplaceOnnx("main")
    \/ SaveReplaceUpdates("main")
    \/ SaveReplacePt("main")
    \/ Release("main")

SpecLoad == InitAtLoad /\ [][NextLoad]_vars

\* _initialize_network_state has returned.
Loaded == pc["main"] = "start"

\* The three artifacts exist, were written by one save, and record count k
\* and parameters n.
AllRecord(fs, k, n) ==
    /\ fs["onnx"].exists /\ fs["updates"].exists /\ fs["pt"].exists
    /\ fs["updates"].count = k
    /\ fs["pt"].count = k
    /\ fs["onnx"].net = n
    /\ fs["pt"].net = n
    /\ fs["onnx"].save = fs["updates"].save
    /\ fs["updates"].save = fs["pt"].save

\* The disk held a portable artifact, a counter file and a checkpoint, all
\* readable, and the two counts differed.
CountsDiffered(fs) ==
    /\ fs["onnx"].exists
    /\ fs["updates"].exists /\ ~unreadable(fs["updates"])
    /\ fs["pt"].exists /\ ~unreadable(fs["pt"])
    /\ fs["pt"].count # fs["updates"].count

\* C13: when the checkpoint's count differed from the counter file's at
\* load, the artifacts record one and the same count once the load returns.
C13_MismatchResynced ==
    (Loaded /\ CountsDiffered(disk0))
        => files["pt"].count = files["updates"].count

\* C14: when the checkpoint's count differed from the counter file's at
\* load, updates_counter is the counter file's value once the load returns.
C14_CounterFileWins ==
    (Loaded /\ CountsDiffered(disk0))
        => updates_counter = disk0["updates"].count

\* C14 witness: a load has returned over a disk whose counter file said 1
\* and whose checkpoint said 0.
C14_LoadedFromMismatch ==
    /\ Loaded
    /\ CountsDiffered(disk0)
    /\ disk0["updates"].count = 1
    /\ disk0["pt"].count = 0

\* The portable artifact and a readable counter file were there, the
\* checkpoint was missing or could not be loaded.
CheckpointLost(fs) ==
    /\ fs["onnx"].exists
    /\ fs["updates"].exists /\ ~unreadable(fs["updates"])
    /\ ~fs["pt"].exists \/ unreadable(fs["pt"])

\* C15: with the portable artifact and the counter file present and the
\* checkpoint missing or unloadable, construction does not fail, it saves at
\* once, and when the load returns the three artifacts exist and record the
\* Learner's updates_counter and parameters.
C15_LostCheckpointResaved ==
    CheckpointLost(disk0) =>
        /\ pc["main"] # "failed"
        /\ Loaded => (saveSeq = 1 /\ AllRecord(files, updates_counter, net))

\* C15 witness: a load has returned over a disk whose counter file said 1
\* and whose checkpoint existed but could not be loaded.
C15_LoadedWithoutCheckpoint ==
    /\ Loaded
    /\ disk0["onnx"].exists
    /\ disk0["updates"].count = 1
    /\ unreadable(disk0["pt"])

\* C16: with no artifact present at construction, when the load returns
\* updates_counter is 0, exactly one save was made, and the three artifacts
\* exist and record count 0.
C16_FreshStartSavesOnce ==
    (Loaded /\ disk0 = EmptyDisk)
        => /\ updates_counter = 0
           /\ saveSeq = 1
           /\ AllRecord(files, 0, net)

\* C37: with the portable artifact and a readable counter file present and
\* no checkpoint, the Learner's updates_counter is the counter file's count
\* once the load returns, and the artifacts saved record that count.
C37_CounterFileCountKept ==
    (/\ Loaded
     /\ disk0["onnx"].exists
     /\ disk0["updates"].exists /\ ~unreadable(disk0["updates"])
     /\ ~disk0["pt"].exists)
        => /\ updates_counter = disk0["updates"].count
           /\ AllRecord(files, disk0["updates"].count, net)

\* C16 witness: a load has returned over an empty disk.
C16_LoadedFromNothing ==
    /\ Loaded
    /\ disk0 = EmptyDisk
    /\ files["pt"].exists

\* ------------------------------------ SpecRestart: a run, then a new process
\* After shutdown() has returned the process exits (main.py:235-248) and a
\* new one is started over the same paths: everything in memory is new, the
\* files are what the old process left.
Restart ==
    /\ pc["main"] = "exited"
    /\ instance <= MaxRestarts
    /\ instance' = instance + 1
    /\ disk0' = files
    /\ memory' = <<>>
    /\ pos' = 0
    /\ updates_counter' = 0
    /\ net' = FreshNet(instance + 1)
    /\ episodes' = [c \in ClientIds |-> 0]
    /\ queue' = <<>>
    /\ writer' = NewWriter
    /\ shutdown_event' = FALSE
    /\ lock' = "free"
    /\ pc' = [t \in Threads |-> IF t = "main" THEN "init_acquire" ELSE "idle"]
    /\ UNCHANGED <<capacity, batch_size, state_dims, save_frequency, callVars,
                   nRecorded, diskVars, httpVars>>

InitRestart ==
    /\ InitCommon
    /\ writer = NewWriter
    /\ capacity = 1
    /\ state_dims = AssumedStateDims
    /\ save_frequency = 0
    /\ disk0 = EmptyDisk
    /\ files = disk0
    /\ pc = [t \in Threads |-> IF t = "main" THEN "init_acquire" ELSE "idle"]

NextRestart ==
    \/ InitAcquire
    \/ InitLoad
    \/ \E t \in Savers : SaveAcquire(t)
    \/ \E t \in Savers : SaveExport(t)
    \/ \E t \in Savers : SaveWriteUpdates(t)
    \/ \E t \in Savers : SaveTorchSave(t)
    \/ \E t \in Savers : SaveReplaceOnnx(t)
    \/ \E t \in Savers : SaveReplaceUpdates(t)
    \/ \E t \in Savers : SaveReplacePt(t)
    \/ \E t \in Savers : Release(t)
    \/ Start
    \/ UdpBind
    \/ Signal
    \/ UdpLoop
    \/ UdpTimeout
    \/ UdpDatagram
    \/ Restart

SpecRestart == InitRestart /\ [][NextRestart]_vars

\* C12: a process constructed over the files a save of an earlier process
\* left has, when its load returns, the updates_counter and the parameters
\* those files record, and has saved nothing itself.
C12_RoundTrip ==
    (instance >= 2 /\ Loaded)
        => /\ updates_counter = disk0["updates"].count
           /\ updates_counter = disk0["pt"].count
           /\ net = disk0["pt"].net
           /\ files = disk0

\* ------------------------------------------ SpecSave: the periodic save
\* The save frequencies explored: negative, off, every update, every other.
SaveFreqChoices == {-1, 0, 1, 2}

\* The server is constructed and started with one of these frequencies;
\* the listener trains on every datagram and saves when due.
InitSave ==
    /\ InitCommon
    /\ writer = Listening
    /\ capacity = 1
    /\ batch_size = 1
    /\ state_dims = AssumedStateDims
    /\ save_frequency \in SaveFreqChoices
    /\ disk0 = SavedDisk(0)
    /\ files = disk0
    /\ pc = [t \in Threads |-> IF t = "main" THEN "serving"
                                ELSE IF t = "udp" THEN "loop" ELSE "idle"]

NextSave ==
    \/ UdpLoop
    \/ UdpTimeout
    \/ UdpDatagram
    \/ SaveAcquire("udp")
    \/ SaveExport("udp")
    \/ SaveWriteUpdates("udp")
    \/ SaveTorchSave("udp")
    \/ SaveReplaceOnnx("udp")
    \/ SaveReplaceUpdates("udp")
    \/ SaveReplacePt("udp")
    \/ Release("udp")

SpecSave == InitSave /\ [][NextSave]_vars

\* k is a positive multiple of f.
PositiveMultiple(k, f) == \E m \in 1..k : k = m * f

\* C24: handling a datagram ends in a save exactly when it made an update,
\* save_frequency is positive and the new updates_counter is a positive
\* multiple of it; with save_frequency 0 or negative it never does.
C24_SaveEveryFrequency ==
    [][(pc["udp"] = "recv" /\ pc'["udp"] # "recv")
         => (pc'["udp"] = "save_acquire"
               <=> /\ updates_counter' = updates_counter + 1
                   /\ save_frequency > 0
                   /\ PositiveMultiple(updates_counter', save_frequency))]_vars

\* C24 witness: with save_frequency 2 the first update went by without a
\* save and the second one has asked for the first save.
C24_SecondUpdateSaves ==
    /\ save_frequency = 2
    /\ updates_counter = 2
    /\ saveSeq = 0
    /\ pc["udp"] = "save_acquire"

\* --------------------------------------------- SpecListener: the listener
\* The server is constructed and started; only the UDP listener runs.
InitListener ==
    /\ InitCommon
    /\ writer = Listening
    /\ capacity \in CapacityChoices
    /\ state_dims = AssumedStateDims
    /\ save_frequency = 0
    /\ disk0 = SavedDisk(0)
    /\ files = disk0
    /\ pc = [t \in Threads |-> IF t = "main" THEN "serving"
                                ELSE IF t = "udp" THEN "loop" ELSE "idle"]

ListenerReceive == Receive(TRUE, ClientIds)

NextListener == UdpLoop \/ UdpTimeout \/ ListenerReceive

SpecListener == InitListener /\ [][NextListener]_vars

\* The datagram last received is one the length tests reject.
LastWasMalformed(l) ==
    \/ l < client_id_size
    \/ l - client_id_size # packet_size(state_dims)

\* C11: a datagram shorter than the id field, or with a payload that is not
\* packet_size bytes, leaves the buffer, the episodes and updates_counter as
\* they were, and the listener is back at the head of its loop.
C11_MalformedDropped ==
    [][(pc["udp"] = "recv" /\ pc'["udp"] # "recv"
          /\ last'.op = "receive" /\ LastWasMalformed(last'.req))
       => /\ memory' = memory
          /\ pos' = pos
          /\ episodes' = episodes
          /\ updates_counter' = updates_counter
          /\ nRecorded' = nRecorded
          /\ pc'["udp"] = "loop"]_vars

\* C11 witness: a well-formed datagram was recorded right after a datagram
\* D+1 bytes short had been dropped, on a buffer that already held one.
C11_RecordedAfterDrop ==
    /\ last.op = "receive"
    /\ ~LastWasMalformed(last.req)
    /\ last.prev = client_id_size + packet_size(state_dims)
                      - (state_dims + 1)
    /\ nRecorded = 2
    /\ pc["udp"] = "loop"

\* ------------------------------------ SpecEpisodes: episodes and errors
\* server.py:367-380: recvfrom raises (ConnectionResetError, OSError); the
\* error is logged and the loop goes on.
UdpSocketError ==
    /\ pc["udp"] = "recv"
    /\ Goto("udp", "loop")
    /\ UNCHANGED <<cfgVars, writer, queue, episodes, bufVars, learnVars, callVars, nRecorded,
                   shutdown_event, diskVars, lock, httpVars>>

\* The server is constructed and started with a state dimension below, at
\* or above the one the buffer assumes.
InitEpisodes ==
    /\ InitCommon
    /\ writer = Listening
    /\ capacity = 1
    /\ batch_size = 1
    /\ state_dims \in StateDimChoices
    /\ save_frequency = 0
    /\ disk0 = SavedDisk(0)
    /\ files = disk0
    /\ pc = [t \in Threads |-> IF t = "main" THEN "serving"
                                ELSE IF t = "udp" THEN "loop" ELSE "idle"]

\* Two clients send.
NextEpisodes ==
    \/ UdpLoop
    \/ UdpTimeout
    \/ UdpSocketError
    \/ ListenerReceive

SpecEpisodes == InitEpisodes /\ [][NextEpisodes]_vars

ErrorsReceive == Receive(TRUE, {1})

\* One client sends, and the owner thread may shut the server down.
NextErrors ==
    \/ UdpLoop
    \/ UdpTimeout
    \/ UdpSocketError
    \/ ErrorsReceive
    \/ Signal
    \/ SaveAcquire("main")
    \/ SaveExport("main")
    \/ SaveWriteUpdates("main")
    \/ SaveTorchSave("main")
    \/ SaveReplaceOnnx("main")
    \/ SaveReplaceUpdates("main")
    \/ SaveReplacePt("main")
    \/ Release("main")

SpecErrors == InitEpisodes /\ [][NextErrors]_vars

\* This step of the listener dealt with a well-formed datagram.
HandledTransition ==
    /\ last'.tick # last.tick
    /\ ~LastWasMalformed(last'.req)

\* C25: a terminal transition logs one episode summary whose length is the
\* number of transitions its client has sent since its previous terminal
\* one, whatever other clients sent in between, and leaves that client
\* without an accumulator; a non-terminal transition logs none.
C25_SummaryCountsOwnTransitions ==
    [][HandledTransition
         => IF last'.terminal
            THEN /\ last'.summary = last.since[last'.client] + 1
                 /\ episodes'[last'.client] = 0
            ELSE last'.summary = 0]_vars

\* C26: a terminal transition from a client that has no accumulator logs
\* no episode summary and creates no accumulator.
C26_UnknownTerminalIgnored ==
    [][(HandledTransition /\ last'.terminal /\ episodes[last'.client] = 0)
         => /\ last'.summary = 0
            /\ episodes'[last'.client] = 0]_vars

\* C30: whatever is raised while a datagram is handled, the listener is
\* back at the head of its loop, and it has finished only if the shutdown
\* event is set.
C30_ErrorsStayInLoop ==
    /\ [][(pc["udp"] = "recv" /\ pc'["udp"] # "recv")
            => /\ pc'["udp"] \in {"loop", "save_acquire"}
               /\ (last'.tick # last.tick /\ last'.raised # "none")
                    => pc'["udp"] = "loop"]_vars
    /\ [](pc["udp"] = "finished" => shutdown_event)

\* C30 witness: the update of a recorded transition raised in gather, and
\* the listener is waiting for the next datagram.
C30_ReceivingAfterError ==
    /\ last.op = "receive"
    /\ last.raised = "RuntimeError"
    /\ nRecorded = 1
    /\ pc["udp"] = "recv"
    /\ ~shutdown_event

\* ------------------------------ SpecBind: a listener that may fail to bind
\* The server is constructed over a saved checkpoint and about to be started.
InitBind ==
    /\ InitCommon
    /\ writer = NewWriter
    /\ capacity = 1
    /\ batch_size = 1
    /\ state_dims = AssumedStateDims
    /\ save_frequency = 0
    /\ disk0 = SavedDisk(0)
    /\ files = disk0
    /\ pc = [t \in Threads |-> IF t = "main" THEN "start" ELSE "idle"]

NextBind ==
    \/ Start
    \/ UdpBind
    \/ UdpBindFails
    \/ UdpLoop
    \/ UdpTimeout
    \/ UdpDatagram
    \/ Signal
    \/ SaveAcquire("main")
    \/ SaveExport("main")
    \/ SaveWriteUpdates("main")
    \/ SaveTorchSave("main")
    \/ SaveReplaceOnnx("main")
    \/ SaveReplaceUpdates("main")
    \/ SaveReplacePt("main")
    \/ Release("main")

SpecBind == InitBind /\ [][NextBind]_vars

\* C29: a listener socket that cannot be bound is fatal: whenever the bind
\* has failed the process has aborted, it is never left running without a
\* listener.
C29_BindFailureIsFatal == pc["udp"] = "unbound" => pc["main"] = "failed"

\* ------------------------------------- SpecMetrics: direct calls on the writer
\* A TensorBoardWriter whose producers are called directly; start_listening
\* has not been called, so nothing consumes the queue.
InitMetrics ==
    /\ InitCommon
    /\ writer = NewWriter
    /\ capacity = 1
    /\ batch_size = 1
    /\ state_dims = AssumedStateDims
    /\ save_frequency = 0
    /\ disk0 = EmptyDisk
    /\ files = EmptyDisk
    /\ pc = [t \in Threads |-> "idle"]

\* server.py:448-458: the end of an episode of the given length, with the
\* accumulated reward and the mean of the sampled values.
LogEpisodeCall ==
    \E length \in {1, MaxPackets}, reward \in Floats, avg_q_value \in Floats :
        /\ queue' = end_episode(queue, length, reward, avg_q_value)
        /\ last' = [NoCall EXCEPT !.op = "log_episode", !.req = length,
                                  !.scalars = <<reward, avg_q_value>>,
                                  !.depth = Len(queue),
                                  !.tick = 1 - last.tick]
        /\ UNCHANGED <<cfgVars, writer, episodes, bufVars, learnVars, sample,
                       nRecorded, shutdown_event, diskVars, lock, pc,
                       httpVars>>

\* writer.log_update(loss, avg_reward, avg_q_values, update_step)
LogUpdateCall ==
    \E update_step \in {1, MaxUpdates}, loss \in Floats, avg_reward \in Floats :
        /\ queue' = log_update(queue, loss, avg_reward, update_step)
        /\ last' = [NoCall EXCEPT !.op = "log_update", !.req = update_step,
                                  !.scalars = <<loss, avg_reward>>,
                                  !.depth = Len(queue),
                                  !.tick = 1 - last.tick]
        /\ UNCHANGED <<cfgVars, writer, episodes, bufVars, learnVars, sample,
                       nRecorded, shutdown_event, diskVars, lock, pc,
                       httpVars>>

NextMetrics == LogEpisodeCall \/ LogUpdateCall

SpecMetrics == InitMetrics /\ [][NextMetrics]_vars

\* This step is a call of log_episode or log_update.
Logged == last'.tick # last.tick

\* C27: log_episode and log_update never block (each can be called in every
\* state and is one step), the queue never holds more than its fixed depth,
\* and a call that finds the queue full leaves its contents unchanged.
C27_EnqueueNeverBlocks ==
    /\ [](Len(queue) <= MaxQueue)
    /\ [](ENABLED LogEpisodeCall /\ ENABLED LogUpdateCall)
    /\ [][(Logged /\ Len(queue) = MaxQueue) => queue' = queue]_vars

\* C27 witness: log_update was called with finite scalars on a full queue.
C27_DroppedOnFullQueue ==
    /\ last.op = "log_update"
    /\ last.scalars = <<Finite, Finite>>
    /\ last.depth = MaxQueue
    /\ Len(queue) = MaxQueue

\* The value the writer is said to enqueue for the scalar x.
sanitized(x) == IF isfinite(x) THEN x ELSE Zero

\* C28: a summary with a non-finite scalar is still enqueued, that scalar
\* replaced by 0: every call that finds room appends its message with each
\* of its scalars sanitized.
C28_NonFiniteLoggedAsZero ==
    [][(Logged /\ Len(queue) < MaxQueue)
         => queue' = Append(queue,
                IF last'.op = "log_episode"
                THEN EpisodeMsg(last'.req, sanitized(last'.scalars[1]),
                                sanitized(last'.scalars[2]))
                ELSE UpdateMsg(sanitized(last'.scalars[1]),
                               sanitized(last'.scalars[2]), last'.req))]_vars

\* ------------------------------------ SpecStop: a listener that is stopped
\* The started server of SpecSave, with shutdown() called at any moment and
\* saves that may find the lock taken by the other saver.
NextStop ==
    \/ UdpLoop
    \/ UdpTimeout
    \/ UdpSocketError
    \/ UdpDatagram
    \/ Signal
    \/ \E t \in Savers : SaveAcquire(t)
    \/ \E t \in Savers : SaveLockTimeout(t)
    \/ \E t \in Savers : SaveExport(t)
    \/ \E t \in Savers : SaveWriteUpdates(t)
    \/ \E t \in Savers : SaveTorchSave(t)
    \/ \E t \in Savers : SaveReplaceOnnx(t)
    \/ \E t \in Savers : SaveReplaceUpdates(t)
    \/ \E t \in Savers : SaveReplacePt(t)
    \/ \E t \in Savers : Release(t)

\* A step of the listener thread.  recvfrom returns after its 1 s timeout at
\* the latest (server.py:326), the lock wait of a save after 10 s (289), and
\* every other step is a computation or a file operation.
UdpStep ==
    \/ UdpLoop
    \/ UdpTimeout
    \/ UdpSocketError
    \/ UdpDatagram
    \/ SaveAcquire("udp")
    \/ SaveLockTimeout("udp")
    \/ SaveExport("udp")
    \/ SaveWriteUpdates("udp")
    \/ SaveTorchSave("udp")
    \/ SaveReplaceOnnx("udp")
    \/ SaveReplaceUpdates("udp")
    \/ SaveReplacePt("udp")
    \/ Release("udp")

\* The listener thread is always scheduled again.
SpecStop == InitSave /\ [][NextStop]_vars /\ WF_vars(UdpStep)

\* C31: once the shutdown event is set the listener ends: it leaves only
\* from the loop test, that is after the datagram in progress and its save
\* are done, and it does leave, closing its socket.
C31_ListenerStopsAfterShutdown ==
    /\ [][(pc'["udp"] = "finished" /\ pc["udp"] # "finished")
            => (pc["udp"] = "loop" /\ shutdown_event)]_vars
    /\ shutdown_event ~> (pc["udp"] = "finished")

\* C31 witness: the listener has finished after shutdown() was called, its
\* second update and the save that update asked for being complete.
C31_FinishedAfterSaveInProgress ==
    /\ pc["udp"] = "finished"
    /\ shutdown_event
    /\ save_frequency = 2
    /\ updates_counter = 2
    /\ files["updates"].count = 2

\* --------------------------- SpecWeight: the WeightServer started and stopped
\* A WeightServer is constructed over whatever the paths hold; its thread is
\* not started yet.  The learner, which shares the lock and the files, has
\* one periodic save due.
InitWeight ==
    /\ InitProcess
    /\ writer = NewWriter
    /\ weight_server = NewWeightServer
    /\ capacity = 1
    /\ batch_size = 1
    /\ state_dims = AssumedStateDims
    /\ save_frequency = 0
    /\ disk0 \in InitialDisks
    /\ files = disk0
    /\ pc = [t \in Threads |-> IF t = "main" THEN "weight_start"
                                ELSE IF t = "udp" THEN "save_acquire"
                                ELSE "off"]

WeightFrame ==
    UNCHANGED <<cfgVars, writer, queue, episodes, bufVars, learnVars, callVars,
                nRecorded, shutdown_event, diskVars, lock, hdr, response>>

\* server.py:719-723 start(): the server thread begins.
WeightStart ==
    /\ pc["main"] = "weight_start"
    /\ pc' = [pc EXCEPT !["main"] = "weight_started", !["http"] = "create"]
    /\ UNCHANGED weight_server
    /\ WeightFrame

\* server.py:738-739: HTTPServer(...) binds and listens; self.httpd is set.
HttpCreate ==
    /\ pc["http"] = "create"
    /\ weight_server' = [weight_server EXCEPT !.httpd = "open"]
    /\ Goto("http", "serve")
    /\ WeightFrame

\* server.py:739, 745-750: HTTPServer(...) raises OSError; self.httpd stays
\* None and the thread goes to its finally clause.
HttpCreateFails ==
    /\ pc["http"] = "create"
    /\ Goto("http", "finally")
    /\ UNCHANGED weight_server
    /\ WeightFrame

\* server.py:743 serve_forever() is entered: BaseServer clears is_shut_down
\* and comes to its loop test.
HttpServe ==
    /\ pc["http"] = "serve"
    /\ weight_server' = [weight_server EXCEPT !.is_shut_down = FALSE]
    /\ Goto("http", "idle")
    /\ WeightFrame

\* BaseServer.serve_forever: the loop test, or the test after select(), finds
\* shutdown_request set; the loop is left, the request flag is reset and
\* is_shut_down is set.
HttpPoll ==
    /\ pc["http"] = "idle"
    /\ weight_server.shutdown_request
    /\ weight_server' = [weight_server EXCEPT !.shutdown_request = FALSE,
                                              !.is_shut_down = TRUE]
    /\ Goto("http", "finally")
    /\ WeightFrame

\* server.py:756-763: the finally clause closes the socket of an httpd that
\* exists.
HttpClose ==
    /\ pc["http"] = "finally"
    /\ weight_server' =
         [weight_server EXCEPT
            !.httpd = IF weight_server.httpd = "none" THEN "none" ELSE "closed"]
    /\ Goto("http", "done")
    /\ WeightFrame

\* server.py:725-733 shutdown(): the event is set; httpd.shutdown() is called
\* only if self.httpd is set by now, and then waits for is_shut_down.
WeightShutdown ==
    /\ pc["main"] = "weight_started"
    /\ IF weight_server.httpd = "none"
       THEN /\ weight_server' = [weight_server EXCEPT !.shutdown_event = TRUE]
            /\ Goto("main", "weight_stopped")
       ELSE /\ weight_server' = [weight_server EXCEPT !.shutdown_event = TRUE,
                                                      !.shutdown_request = TRUE]
            /\ Goto("main", "weight_wait")
    /\ WeightFrame

\* BaseServer.shutdown(): is_shut_down.wait() returns.
WeightShutdownReturns ==
    /\ pc["main"] = "weight_wait"
    /\ weight_server.is_shut_down
    /\ Goto("main", "weight_stopped")
    /\ UNCHANGED weight_server
    /\ WeightFrame

\* A request that select() reports is handled unless shutdown_request is
\* set by then (BaseServer.serve_forever).
RequestArrives ==
    /\ ~weight_server.shutdown_request
    /\ (GetAcquire \/ GetLockTimeout)

NextWeight ==
    \/ WeightStart
    \/ HttpCreate
    \/ HttpCreateFails
    \/ HttpServe
    \/ HttpPoll
    \/ HttpClose
    \/ WeightShutdown
    \/ WeightShutdownReturns
    \/ RequestArrives
    \/ GetCheck
    \/ GetReadUpdates
    \/ GetReadOnnx
    \/ GetReadFails
    \/ SaveAcquire("udp")
    \/ SaveLockTimeout("udp")
    \/ SaveExport("udp")
    \/ SaveWriteUpdates("udp")
    \/ SaveTorchSave("udp")
    \/ SaveReplaceOnnx("udp")
    \/ SaveReplaceUpdates("udp")
    \/ SaveReplacePt("udp")
    \/ Release("udp")

\* A step of the server thread other than taking up a new request.
HttpStep ==
    \/ HttpCreate
    \/ HttpServe
    \/ HttpPoll
    \/ HttpClose
    \/ GetCheck
    \/ GetReadUpdates
    \/ GetReadOnnx

\* The server thread is always scheduled again.
SpecWeight == InitWeight /\ [][NextWeight]_vars /\ WF_vars(HttpStep)

\* shutdown() has been called.
WeightShutdownCalled == pc["main"] \in {"weight_wait", "weight_stopped"}

\* C32: whenever shutdown() has been called, the server thread ends in the
\* end and the socket of its HTTP server, if one was made, is closed.
C32_WeightServerStops ==
    WeightShutdownCalled
        ~> (pc["http"] = "done" /\ weight_server.httpd # "open")

\* C39: once the final save of shutdown() has started, no step changes
\* updates_counter or the approximator's parameters.
C39_NoUpdateAfterFinalSaveStarts ==
    [][(shutdown_event /\ pc["main"] \in SaveLabels \cup {"exited"})
          => (updates_counter' = updates_counter /\ net' = net)]_vars

\* --------------------------- SpecWriter: the writer's consumer and stop()
\* A TensorBoardWriter is constructed; the owner starts and stops it while
\* a producer logs.
InitWriter ==
    /\ InitCommon
    /\ writer = NewWriter
    /\ capacity = 1
    /\ batch_size = 1
    /\ state_dims = AssumedStateDims
    /\ save_frequency = 0
    /\ disk0 = EmptyDisk
    /\ files = EmptyDisk
    /\ pc = [t \in Threads |-> IF t = "main" THEN "writer_new" ELSE "idle"]

WriterFrame ==
    UNCHANGED <<cfgVars, episodes, bufVars, learnVars, sample, nRecorded,
                shutdown_event, diskVars, lock, httpVars>>

\* tensorboard_writer.py:47-66 start_listening()
WriterStartListening ==
    /\ pc["main"] = "writer_new"
    /\ writer' = start_listening(writer)
    /\ Goto("main", "writer_started")
    /\ UNCHANGED <<queue, last>>
    /\ WriterFrame

\* What a handled transition hands to the writer (log_calls): an episode
\* summary, an update summary, or both.
WriterLog ==
    /\ \E summary \in 0..1, step \in 0..1 :
          /\ summary + step > 0
          /\ queue' = log_calls(queue, summary, 0, step)
    /\ UNCHANGED <<writer, pc, last>>
    /\ WriterFrame

\* tensorboard_writer.py:72-81 stop(): with no live thread the SummaryWriter
\* is closed and stop() returns; else the stop event is set.
WriterStop ==
    /\ pc["main"] \in {"writer_new", "writer_started"}
    /\ IF alive(writer)
       THEN /\ writer' = [writer EXCEPT !.stop_event = TRUE]
            /\ Goto("main", "stop_put")
       ELSE /\ writer' = [writer EXCEPT !.open = FALSE]
            /\ Goto("main", "writer_stopped")
    /\ UNCHANGED <<queue, last>>
    /\ WriterFrame

\* tensorboard_writer.py:82-89: the sentinel is put without blocking; Full is
\* caught and logged.
WriterStopPut ==
    /\ pc["main"] = "stop_put"
    /\ queue' = stop(queue)
    /\ last' = [NoCall EXCEPT !.op = "stop", !.depth = Len(queue)]
    /\ Goto("main", "stop_join")
    /\ UNCHANGED writer
    /\ WriterFrame

\* tensorboard_writer.py:91-102: join(timeout=2.0) returns, the thread ended
\* or not, and the SummaryWriter is closed.
WriterJoin ==
    /\ pc["main"] = "stop_join"
    /\ writer' = [writer EXCEPT !.open = FALSE]
    /\ Goto("main", "writer_stopped")
    /\ UNCHANGED <<queue, last>>
    /\ WriterFrame

\* tensorboard_writer.py:104-111 _listen begins: without a SummaryWriter the
\* thread returns.
ListenBegin ==
    /\ writer.thread = "begin"
    /\ writer' = [writer EXCEPT !.thread = IF writer.open THEN "test"
                                           ELSE "done"]
    /\ UNCHANGED <<queue, pc, last>>
    /\ WriterFrame

\* Mutant of ListenTest: the loop is "while True".
ListenTestIgnoresStop ==
    /\ writer.thread = "test"
    /\ writer' = [writer EXCEPT !.thread = "get"]
    /\ UNCHANGED <<queue, pc, last>>
    /\ WriterFrame

\* tensorboard_writer.py:113: while not self._stop_event.is_set()
ListenTest ==
    /\ writer.thread = "test"
    /\ writer' = [writer EXCEPT !.thread = IF writer.stop_event THEN "done"
                                           ELSE "get"]
    /\ UNCHANGED <<queue, pc, last>>
    /\ WriterFrame

\* tensorboard_writer.py:115-205: get() returns the oldest message; the
\* sentinel leaves the loop, any other message is written (an error of the
\* write is caught and logged) and the loop test comes next.
ListenGet ==
    /\ writer.thread = "get"
    /\ queue # <<>>
    /\ queue' = Tail(queue)
    /\ writer' = [writer EXCEPT !.thread = IF Head(queue) = Sentinel
                                           THEN "done" ELSE "test"]
    /\ UNCHANGED <<pc, last>>
    /\ WriterFrame

\* tensorboard_writer.py:115 and 207-208: get(timeout=1.0) raises Empty.
ListenEmpty ==
    /\ writer.thread = "get"
    /\ queue = <<>>
    /\ writer' = [writer EXCEPT !.thread = "test"]
    /\ UNCHANGED <<queue, pc, last>>
    /\ WriterFrame

NextWriter ==
    \/ WriterStartListening
    \/ WriterLog
    \/ WriterStop
    \/ WriterStopPut
    \/ WriterJoin
    \/ ListenBegin
    \/ ListenTest
    \/ ListenGet
    \/ ListenEmpty

\* A step of the consumer thread.
ListenStep == ListenBegin \/ ListenTest \/ ListenGet \/ ListenEmpty

\* The consumer thread is always scheduled again.
SpecWriter == InitWriter /\ [][NextWriter]_vars /\ WF_vars(ListenStep)

\* stop() has been called.
WriterStopCalled == pc["main"] \in {"stop_put", "stop_join", "writer_stopped"}

\* C40: whenever stop() has been called, the consumer thread is in the end
\* not running, whether or not the sentinel found room in the queue.
C40_ConsumerStopsAfterStop == WriterStopCalled ~> ~alive(writer)

\* C40 witness: stop() found the queue full, so the sentinel was dropped;
\* the consumer has since taken messages out of the queue in its loop and
\* has ended.
C40_EndedWithoutSentinel ==
    /\ pc["main"] = "writer_stopped"
    /\ last.op = "stop"
    /\ last.depth = MaxQueue
    /\ Len(queue) < MaxQueue
    /\ writer.thread = "done"

\* ----------------------------------------------- SpecMemory: direct calls
\* memory.record_transition(t)
RecordCall ==
    \E t \in MemoryPackets(state_dims), coins \in CoinRuns(memory, capacity) :
        LET r == record_transition(memory, capacity, pos, t, coins)
        IN  /\ memory' = r.memory
            /\ pos' = r.pos
            /\ last' = [NoCall EXCEPT !.op = "record_transition",
                                      !.raised = r.raised, !.full = r.full,
                                      !.passed = r.passed, !.flips = r.flips,
                                      !.written = r.written, !.arg = t]
            /\ sample' = <<>>
            /\ UNCHANGED <<cfgVars, writer, queue, episodes, learnVars, nRecorded, shutdown_event,
                           diskVars, lock, pc, httpVars>>

\* memory.get_batch(n)
GetBatchCall ==
    \E n \in 1..MaxBatch :
        \E slots \in Draws(memory, n) :
            LET r == get_batch(memory, n, slots)
            IN  /\ sample' = r.batch
                /\ last' = [NoCall EXCEPT !.op = "get_batch",
                                          !.raised = r.raised, !.req = n,
                                          !.slots = slots]
                /\ UNCHANGED <<cfgVars, writer, queue, episodes, bufVars, learnVars, nRecorded,
                               shutdown_event, diskVars, lock, pc, httpVars>>

\* server.perform_update() called directly
PerformUpdateCall ==
    /\ updates_counter < MaxDirectUpdates
    /\ \E slots \in Draws(memory, batch_size) :
       LET u == perform_update(memory, state_dims, batch_size,
                               updates_counter, net, save_frequency, slots)
       IN  /\ updates_counter' = u.updates_counter
           /\ net' = u.net
           /\ last' = [NoCall EXCEPT !.op = "perform_update",
                                     !.raised = u.outcome]
           /\ sample' = <<>>
           /\ queue' = log_calls(queue, 0, updates_counter, u.updates_counter)
           /\ UNCHANGED <<cfgVars, writer, episodes, bufVars, nRecorded, shutdown_event,
                          diskVars, lock, pc, httpVars>>

NextMemory == RecordCall \/ GetBatchCall \/ PerformUpdateCall

SpecMemory == InitMemory /\ [][NextMemory]_vars

\* ===================================================== claims, SpecMemory

\* C1: for every capacity and every sequence of record_transition calls the
\* number of stored transitions never exceeds the capacity.
C1_SizeWithinCapacity == Len(memory) <= capacity

\* C1 witness: a record call has just run on a buffer that was already full.
C1_RecordedOnFullBuffer ==
    /\ last.op = "record_transition"
    /\ last.full
    /\ Len(memory) = capacity

\* C7: a record on a full buffer passes over a slot only if that slot holds a
\* terminal transition and its coin said keep, so a non-terminal slot the
\* cursor reaches is the one overwritten; afterwards the cursor is one past
\* the overwritten slot modulo the capacity.
C7_NeverSkipsNonTerminal ==
    [][(last'.op = "record_transition" /\ last'.full) =>
          /\ \A k \in 1..Len(last'.passed) :
                /\ packet_terminal(state_dims, memory[last'.passed[k] + 1])
                /\ last'.flips[k]
          /\ (~packet_terminal(state_dims, memory[pos + 1])
                => last'.written = pos)
          /\ pos' = (last'.written + 1) % capacity]_vars

\* C8: one record call on a full buffer passes over at most capacity slots
\* before it overwrites one.
C8_AtMostOneRevolution ==
    (last.op = "record_transition" /\ last.full)
        => Len(last.passed) <= capacity

\* C9: get_batch(n) with n not above the size returns n transitions, taken
\* from n different slots, each equal to what its slot stores, and changes
\* neither the buffer nor the cursor.
C9_GetBatchDistinctStored ==
    [][(last'.op = "get_batch" /\ last'.req <= Len(memory)) =>
          /\ last'.raised = "none"
          /\ Len(sample') = last'.req
          /\ Len(last'.slots) = last'.req
          /\ \A i, j \in 1..last'.req :
                i # j => last'.slots[i] # last'.slots[j]
          /\ \A k \in 1..last'.req :
                /\ last'.slots[k] \in 1..Len(memory)
                /\ sample'[k] = memory[last'.slots[k]]
          /\ memory' = memory
          /\ pos' = pos]_vars

\* C9 witness: a batch as large as the whole buffer (two slots) was returned.
C9_WholeBufferSampled ==
    /\ last.op = "get_batch"
    /\ last.raised = "none"
    /\ last.req = 2
    /\ Len(memory) = 2

\* C10: get_batch(n) with n above the size raises ValueError and changes
\* neither buffer nor cursor; perform_update on a buffer smaller than the
\* batch size skips the update and leaves updates_counter and the network
\* as they were.
C10_InsufficientDataSkips ==
    [][/\ (last'.op = "get_batch" /\ last'.req > Len(memory)) =>
             /\ last'.raised = "ValueError"
             /\ sample' = <<>>
             /\ memory' = memory
             /\ pos' = pos
       /\ (last'.op = "perform_update" /\ batch_size > Len(memory)) =>
             /\ last'.raised = "skipped"
             /\ updates_counter' = updates_counter
             /\ net' = net
             /\ memory' = memory
             /\ pos' = pos]_vars

\* C10 witness: get_batch has just failed on a non-empty buffer.
C10_GetBatchRaised ==
    /\ last.op = "get_batch"
    /\ last.raised = "ValueError"
    /\ Len(memory) >= 1

\* C34: a record call that returns normally takes the size from n to
\* min(n + 1, capacity), so N of them from the empty buffer leave
\* min(N, capacity); on a buffer that is not full it appends the transition,
\* leaves the slots stored before as they were and the cursor at 0, so the
\* cursor is on slot 0, the oldest, when the first eviction starts.
C34_AppendUntilFull ==
    [][(last'.op = "record_transition" /\ last'.raised = "none") =>
          /\ Len(memory') = IF Len(memory) < capacity
                            THEN Len(memory) + 1 ELSE capacity
          /\ (Len(memory) < capacity) =>
                /\ \E t \in MemoryPackets(state_dims) :
                      memory' = Append(memory, t)
                /\ last'.written = Len(memory)
                /\ pos = 0
                /\ pos' = 0]_vars

\* C34 witness: the second record on a buffer of capacity 2 has just filled
\* it by appending.
C34_FilledByAppend ==
    /\ last.op = "record_transition"
    /\ last.raised = "none"
    /\ ~last.full
    /\ capacity = 2
    /\ Len(memory) = 2
    /\ pos = 0

\* C35: a record call on a full buffer that returns normally puts the
\* transition it was given into exactly one slot and leaves every other slot
\* and the size as they were, whatever the coins said.
C35_FullRecordReplacesOneSlot ==
    [][(/\ last'.op = "record_transition"
        /\ last'.raised = "none"
        /\ Len(memory) >= capacity) =>
          /\ last'.full
          /\ last'.written \in 0..(capacity - 1)
          /\ memory' = [memory EXCEPT ![last'.written + 1] = last'.arg]
          /\ Len(memory') = Len(memory)]_vars

\* C35 witness: on a full buffer of two slots every slot the call examined
\* tested terminal and every coin said keep, and the non-terminal transition
\* given is in the buffer.
C35_AllKeptStillWritten ==
    /\ last.op = "record_transition"
    /\ last.full
    /\ capacity = 2
    /\ Len(last.flips) = capacity + 1
    /\ \A k \in 1..Len(last.flips) : last.flips[k]
    /\ ~packet_terminal(state_dims, last.arg)
    /\ memory[last.written + 1] = last.arg

\* C36: for every configured state dimension a record call on a well-formed
\* transition returns normally, and the terminal test of the replacement
\* policy gives for every stored transition what the ingestor's terminal
\* flag (element 2 * state_dims + 2) gives.
C36_TerminalIndexFollowsStateDims ==
    /\ (last.op = "record_transition") => (last.raised = "none")
    /\ \A k \in 1..Len(memory) :
          terminal_test(memory[k]) = packet_terminal(state_dims, memory[k])

====
